---------------------------- MODULE Spec2Model ----------------------------
(***************************************************************************)
(* A model of the scraper scripts under src/workers.                       *)
(*                                                                         *)
(* Text is modelled as a sequence of tokens.  A token is a run of          *)
(* characters that the code never looks inside, or a single delimiter      *)
(* character: "http:" "https:" "/" "?" "#" ";" "&" are the URL delimiters, *)
(* "h" is the site's host in lower case, "H" the same host with upper-case *)
(* letters, "a".."e" are path words, and "utm" "sf" "WT" "k" are the query *)
(* parameters utm_source=x, sf=1, WT.mc_id=2 and k=v.  The empty sequence  *)
(* is the empty string (and, where the code only tests truthiness, None).  *)
(***************************************************************************)
EXTENDS Integers, Sequences, FiniteSets, TLC

VARIABLES
    \* ---- canonicalization, applied to one URL (SpecUrl)
    uIn, uFn, uOut1, uOut2, uStep, uHref,
    \* ---- date normalization, applied to one raw value (SpecDate)
    dRaw, dRes, dKey, dStep, dFn,
    \* ---- the feed-only scrapers scrape_sbs_en_rss, scrape_sbs_zh_hant_rss
    \*      (SpecFeed)
    fScript, fItems, fSeen, fTaken, fPc, fDoc,
    \* ---- scrape_aucd_rss (SpecAucd)
    \*      aLog is a history of the entries and article URLs gone through
    bag, aPc, aDoc, aLog,
    \* ---- the crawl-based scrapers scrape_7news_en, scrape_9news_en,
    \*      scrape_abc_en, scrape_sbs_en, scrape_sbs_zh_hant (SpecRun);
    \*      trace is a history of the article loop, one entry per merged URL
    script, urls_a, urls_b, urls_crawl, urls_fb, merged, idx, pc,
    articles, seen_links, fetched, doc, trace,
    \* ---- extraction from one fetched page: parse_json_ld,
    \*      extract_meta_from_html and make_item of scrape_7news_en
    \*      (SpecExtract)
    xBlocks, xOg, xTitleTag, xItem, xStep,
    \* ---- scrape_2cr (SpecCr); crLog is a history of the feed entries read,
    \*      crAsked of the feed pages requested
    crFeed, crPage, crItems, crCollected, crSeen, crNow, crLog, crAsked, crPc, crDoc,
    \* ---- fix_dates_sbs_zh_hant (SpecFix); fxFile is sbs_zh_hant.json on
    \*      disk, fxIn a history of what it held when the script started
    fxFile, fxIn, fxItems, fxIdx, fxFetched, fxChanged, fxErr, fxExit, fxPc,
    \* ---- one shallow crawl: crawl_site, crawl_news_section,
    \*      crawl_chinese_section (SpecCrawl).  cwHrefs is the link graph (the
    \*      hrefs of the <a> tags of each page); cwFetched and cwEnqueued are
    \*      histories of the fetches attempted and of the URLs put in the queue
    cwScript, cwSeeds, cwHrefs, cwQ, seen_pages, found_articles, pages_visited,
    cwFetched, cwEnqueued, cwRes, cwPc,
    \* ---- collect_from_sitemaps (SpecSitemap); smRobots is what robots.txt
    \*      lists
    smScript, smRobots, smIdx, smOut, smRes, smPc,
    \* ---- one call of make_item with every field of the page (SpecItem):
    \*      the URL, the hint of the entry page, the answers of parse_json_ld
    \*      and extract_meta_from_html, and the item made
    miScript, miUrl, miHint, miPage, miItem, miPc

urlVars == <<uIn, uFn, uOut1, uOut2, uStep, uHref>>

dateVars == <<dRaw, dRes, dKey, dStep, dFn>>

feedVars == <<fScript, fItems, fSeen, fTaken, fPc, fDoc>>

aucdVars == <<bag, aPc, aDoc, aLog>>

runVars == <<script, urls_a, urls_b, urls_crawl, urls_fb, merged, idx, pc,
             articles, seen_links, fetched, doc, trace>>

extractVars == <<xBlocks, xOg, xTitleTag, xItem, xStep>>

\* the variables of the parts added after the first five
crVars == <<crFeed, crPage, crItems, crCollected, crSeen, crNow, crLog, crAsked, crPc,
           crDoc>>

fixVars == <<fxFile, fxIn, fxItems, fxIdx, fxFetched, fxChanged, fxErr, fxExit, fxPc>>

crawlVars == <<cwScript, cwSeeds, cwHrefs, cwQ, seen_pages, found_articles,
               pages_visited, cwFetched, cwEnqueued, cwRes, cwPc>>

smVars == <<smScript, smRobots, smIdx, smOut, smRes, smPc>>

itemVars == <<miScript, miUrl, miHint, miPage, miItem, miPc>>

lastVars == <<crawlVars, smVars, itemVars>>

laterVars == <<extractVars, crVars, fixVars, lastVars>>

vars == <<urlVars, dateVars, feedVars, aucdVars, runVars, laterVars>>

(***************************************************************************)
(* Bounds of the model.                                                    *)
(***************************************************************************)
MaxTailLen == 3

MaxClock == 2

\* MAX_ITEMS of the feed-only scrapers (120 in the source)
MAX_ITEMS_RSS == 3

\* MAX_ITEMS of scrape_aucd_rss (300 in the source), and the number of items
\* its feeds and category pages yield in one run
MAX_ITEMS_AUCD == 2

MaxBag == 3

\* MAX_ITEMS of the crawl-based scrapers (200 in the source)
MAX_ITEMS == 4

(***************************************************************************)
(* Generic string helpers (Python str methods on token sequences).         *)
(***************************************************************************)
Range(s) == {s[i] : i \in 1..Len(s)}

SeqsUpTo(S, n) == UNION {[1..k -> S] : k \in 0..n}

\* str.find for any of the delimiters in S: the first index, 0 when absent
Find(s, S) ==
    IF \E i \in 1..Len(s) : s[i] \in S
    THEN CHOOSE i \in 1..Len(s) : s[i] \in S /\ \A j \in 1..(i-1) : s[j] \notin S
    ELSE 0

\* str.rfind: the last index, 0 when absent
RFind(s, S) ==
    IF \E i \in 1..Len(s) : s[i] \in S
    THEN CHOOSE i \in 1..Len(s) : s[i] \in S /\ \A j \in (i+1)..Len(s) : s[j] \notin S
    ELSE 0

From(s, i) == SubSeq(s, i, Len(s))

StartsWith(s, p) == Len(s) >= Len(p) /\ SubSeq(s, 1, Len(p)) = p

RECURSIVE RStrip(_, _)
RStrip(s, c) ==
    IF Len(s) > 0 /\ s[Len(s)] = c THEN RStrip(SubSeq(s, 1, Len(s) - 1), c) ELSE s

RECURSIVE SplitOn(_, _)
SplitOn(s, sep) ==
    LET i == Find(s, {sep})
    IN  IF i = 0 THEN <<s>>
        ELSE <<SubSeq(s, 1, i - 1)>> \o SplitOn(From(s, i + 1), sep)

LowerTok(t) == IF t = "H" THEN "h" ELSE t

Lower(s) == [i \in 1..Len(s) |-> LowerTok(s[i])]

(***************************************************************************)
(* urllib.parse as the scripts use it.                                     *)
(***************************************************************************)
SchemeToks == {"http:", "https:"}

SchemeName(t) == IF t = "http:" THEN "http" ELSE "https"

\* str.partition at index i (0 when the delimiter is absent)
CutAt(s, i) ==
    IF i = 0 THEN [head |-> s, tail |-> <<>>]
    ELSE [head |-> SubSeq(s, 1, i - 1), tail |-> From(s, i + 1)]

Partition(s, S) == CutAt(s, Find(s, S))

\* urlsplit: the scheme.  A colon occurs only inside a scheme token, and
\* inputs carry one only in front, so the scheme is the leading scheme token.
SplitScheme(url) ==
    IF Len(url) > 0 /\ url[1] \in SchemeToks
    THEN [scheme |-> SchemeName(url[1]), rest |-> Tail(url)]
    ELSE [scheme |-> "", rest |-> url]

\* urlsplit: the netloc is what follows a leading // up to the next / ? or #
NetlocCut(s, d) ==
    IF d = 0 THEN [netloc |-> s, rest |-> <<>>]
    ELSE [netloc |-> SubSeq(s, 1, d - 1), rest |-> From(s, d)]

SplitNetloc(rest) ==
    IF StartsWith(rest, <<"/", "/">>)
    THEN NetlocCut(From(rest, 3), Find(From(rest, 3), {"/", "?", "#"}))
    ELSE [netloc |-> <<>>, rest |-> rest]

\* urlparse's _splitparams: the ;params of the last path segment
ParamsCut(path, semi) ==
    IF semi = 0 THEN [path |-> path, params |-> <<>>]
    ELSE [path |-> SubSeq(path, 1, semi - 1), params |-> From(path, semi + 1)]

SemiIndex(sl, semiRel) == IF semiRel = 0 THEN 0 ELSE sl + semiRel

SplitParamsFrom(path, sl) ==
    ParamsCut(path, SemiIndex(sl, Find(From(path, sl + 1), {";"})))

SplitParams(path) == SplitParamsFrom(path, RFind(path, {"/"}))

UrlParts(scheme, netloc, pp, query, fragment) ==
    [scheme |-> scheme, netloc |-> netloc, path |-> pp.path,
     params |-> pp.params, query |-> query, fragment |-> fragment]

UrlFromQuery(scheme, netloc, qr, fragment) ==
    UrlParts(scheme, netloc, SplitParams(qr.head), qr.tail, fragment)

UrlFromFragment(scheme, netloc, fr) ==
    UrlFromQuery(scheme, netloc, Partition(fr.head, {"?"}), fr.tail)

UrlFromNetloc(scheme, nl) ==
    UrlFromFragment(scheme, nl.netloc, Partition(nl.rest, {"#"}))

UrlFromScheme(sc) == UrlFromNetloc(sc.scheme, SplitNetloc(sc.rest))

\* urlparse(url): scheme, netloc, path, params, query, fragment
urlparse(url) == UrlFromScheme(SplitScheme(url))

\* quote_plus / unquote of one token (urlencode and parse_qs)
ParamToks == {"utm", "sf", "WT", "k"}

Quote(t) ==
    CASE t = "/"      -> "%2F"
      [] t = "?"      -> "%3F"
      [] t = ";"      -> "%3B"
      [] t = "#"      -> "%23"
      [] t = "http:"  -> "http%3A"
      [] t = "https:" -> "https%3A"
      [] t = "utm"    -> "utm%3D"
      [] t = "sf"     -> "sf%3D"
      [] t = "WT"     -> "WT%3D"
      [] t = "k"      -> "k%3D"
      [] OTHER        -> t

Unquote(t) ==
    CASE t = "%2F"      -> "/"
      [] t = "%3F"      -> "?"
      [] t = "%3B"      -> ";"
      [] t = "%23"      -> "#"
      [] t = "http%3A"  -> "http:"
      [] t = "https%3A" -> "https:"
      [] t = "utm%3D"   -> "utm"
      [] t = "sf%3D"    -> "sf"
      [] t = "WT%3D"    -> "WT"
      [] t = "k%3D"     -> "k"
      [] OTHER          -> t

QuoteAll(s) == [i \in 1..Len(s) |-> Quote(s[i])]

UnquoteAll(s) == [i \in 1..Len(s) |-> Unquote(s[i])]

\* parse_qs(query, keep_blank_values=False): the fields that carry a "=" and a
\* value, in order.  A field is name-prefix, the first parameter token (which
\* holds the "="), and the rest of the value; pre and post are unquoted.
RECURSIVE QsFields(_)
QsFields(fields) ==
    IF fields = <<>> THEN <<>>
    ELSE LET fld == Head(fields)
             i   == Find(fld, ParamToks)
         IN  IF i = 0 THEN QsFields(Tail(fields))
             ELSE <<[pre  |-> UnquoteAll(SubSeq(fld, 1, i - 1)),
                     p    |-> fld[i],
                     post |-> UnquoteAll(From(fld, i + 1))]>>
                  \o QsFields(Tail(fields))

parse_qs(query) == QsFields(SplitOn(query, "&"))

QsName(f) == <<f.pre, f.p>>

\* the dict parse_qs returns: one entry per name in order of first occurrence;
\* the entry kept is the first value (vals[0])
RECURSIVE QsDict(_, _)
QsDict(fs, seen) ==
    IF fs = <<>> THEN <<>>
    ELSE IF QsName(Head(fs)) \in seen THEN QsDict(Tail(fs), seen)
    ELSE <<Head(fs)>> \o QsDict(Tail(fs), seen \cup {QsName(Head(fs))})

\* urlencode of the cleaned dict
RECURSIVE urlencode(_)
urlencode(fs) ==
    IF fs = <<>> THEN <<>>
    ELSE LET f == Head(fs)
             one == QuoteAll(f.pre) \o <<f.p>> \o QuoteAll(f.post)
         IN  IF Len(fs) = 1 THEN one ELSE one \o <<"&">> \o urlencode(Tail(fs))

RECURSIVE SelectSeqBy(_, _)
SelectSeqBy(s, keep) ==
    IF s = <<>> THEN <<>>
    ELSE (IF Head(s) \in keep THEN <<Head(s)>> ELSE <<>>) \o SelectSeqBy(Tail(s), keep)

(***************************************************************************)
(* Canonicalization.                                                       *)
(***************************************************************************)
\* if url.startswith("//"): url = "https:" + url
WithScheme(u) == IF StartsWith(u, <<"/", "/">>) THEN <<"https:">> \o u ELSE u

\* "x or '/'"
OrRoot(path) == IF path = <<>> THEN <<"/">> ELSE path

Canonical7(p) == <<"https:", "/", "/">> \o Lower(p.netloc) \o OrRoot(RStrip(p.path, "/"))

Canonical9(p) ==
    <<"https:", "/", "/">> \o Lower(p.netloc) \o OrRoot(RStrip(OrRoot(p.path), "/"))

\* canonicalize_link of scrape_7news_en.  href is the page's
\* <link rel=canonical> href, <<>> when the call has no page HTML or the page
\* has no such tag
canonicalize_link(url, href) ==
    Canonical7(urlparse(WithScheme(IF href # <<>> THEN href ELSE url)))

\* canonicalize_link of scrape_9news_en
canonicalize_link9(url, href) ==
    Canonical9(urlparse(WithScheme(IF href # <<>> THEN href ELSE url)))

CANON_HOST == <<"h">>

\* k.lower() of a parameter name
LowerName(t) == IF t = "WT" THEN "wt" ELSE t

\* the literal set {"WT.mc_id", "WT.tsrc", "sf"} that the lower-cased name is
\* looked up in
TrackingNames == {"WT", "sf"}

IsDroppedParam(f) ==
    /\ f.pre = <<>>
    /\ \/ LowerName(f.p) = "utm"
       \/ LowerName(f.p) \in TrackingNames

\* cleaned: the dict without the dropped parameters
Cleaned(qs) == SelectSeqBy(qs, {f \in Range(qs) : ~IsDroppedParam(f)})

AbcAssemble(path, new_q) ==
    <<"https:", "/", "/">> \o CANON_HOST \o path
        \o (IF new_q # <<>> THEN <<"?">> \o new_q ELSE <<>>)

CanonicalAbc(u, p) ==
    IF "h" \notin Range(p.netloc) THEN u
    ELSE AbcAssemble(RStrip(p.path, "/"),
                     urlencode(Cleaned(QsDict(parse_qs(p.query), {}))))

canonical_abc_url(u) == CanonicalAbc(u, urlparse(u))

(***************************************************************************)
(* Dates.  A date string is a record: k is the form of the text ("iso" for *)
(* ISO-8601, "rfc" for RFC-822/1123, "text" for anything else, "empty" and *)
(* "blank" for "" and white space), t the clock reading in hours, off the  *)
(* written offset in hours and tz how the zone is written: "naive" (none), *)
(* "Z" (the string ends in the letter Z), "GMT", or "num" (+hh:mm).  pad   *)
(* says that the text is surrounded by white space.  The same record shape *)
(* carries Python's None (k = "None") and a JSON value that is not a       *)
(* string (k = "nonstr").                                                  *)
(***************************************************************************)
DateV(k, t, off, tz, pad) == [k |-> k, t |-> t, off |-> off, tz |-> tz, pad |-> pad]

None == DateV("None", 0, 0, "-", FALSE)

NonStr == DateV("nonstr", 0, 0, "-", FALSE)

Offsets == {-10, 0, 10}

Clock == 0..MaxClock

IsoStrings ==
    {DateV("iso", t, 0, tz, pad) : t \in Clock, tz \in {"naive", "Z"}, pad \in BOOLEAN}
    \cup {DateV("iso", t, off, "num", pad) : t \in Clock, off \in Offsets, pad \in BOOLEAN}

RfcStrings ==
    {DateV("rfc", t, 0, tz, pad) : t \in Clock, tz \in {"naive", "Z", "GMT"}, pad \in BOOLEAN}
    \cup {DateV("rfc", t, off, "num", pad) : t \in Clock, off \in Offsets, pad \in BOOLEAN}

TextStrings == {DateV("text", 0, 0, tz, FALSE) : tz \in {"-", "Z"}}

BlankStrings == {DateV("empty", 0, 0, "-", FALSE), DateV("blank", 0, 0, "-", TRUE)}

RawDates == IsoStrings \cup RfcStrings \cup TextStrings \cup BlankStrings
            \cup {None, NonStr}

\* the instant a date string denotes, a zone-less one read as UTC
Instant(s) == s.t - s.off

\* str.strip()
Strip(s) == IF s.k = "blank" THEN DateV("empty", 0, 0, "-", FALSE)
            ELSE [s EXCEPT !.pad = FALSE]

EndsWithZ(s) == s.tz = "Z" /\ ~s.pad

\* dt.astimezone(timezone.utc).isoformat()
UtcIsoformat(instant) == DateV("iso", instant, 0, "num", FALSE)

Ret(v) == [st |-> "ret", val |-> v]

Raise == [st |-> "raise", val |-> None]

\* datetime.fromisoformat accepts the text
FromIsoOk(s) == s.k = "iso"

\* email.utils.parsedate_to_datetime accepts the text
ParseDateOk(s) == s.k = "rfc"

\* normalize_date after s = raw.strip()
NormalizeStripped(s) ==
    IF s.k = "empty" THEN Ret(None)
    ELSE IF EndsWithZ(s) THEN Ret(s)
    ELSE IF FromIsoOk(s) THEN Ret(UtcIsoformat(Instant(s)))
    ELSE IF ParseDateOk(s) THEN Ret(UtcIsoformat(Instant(s)))
    ELSE Ret(None)

\* normalize_date of the crawl-based scrapers and of scrape_aucd_rss
normalize_date(raw) ==
    IF raw.k = "nonstr" THEN Raise                   \* raw.strip() on a non-string
    ELSE IF raw.k \in {"None", "empty"} THEN Ret(None)
    ELSE NormalizeStripped(Strip(raw))

\* normalize_date of scrape_sbs_zh_hant_rss; its callers pass strings only
normalize_date_zh_rss(raw) ==
    IF raw.k \in {"None", "empty"} THEN Ret(None)
    ELSE LET s == Strip(raw)
         IN  IF FromIsoOk(s) THEN Ret(UtcIsoformat(Instant(s)))
             ELSE IF ParseDateOk(s) THEN Ret(UtcIsoformat(Instant(s)))
             ELSE Ret(None)

\* normalize_date of scrape_sbs_en_rss: an ISO text gets the letter Z appended
\* to its own isoformat(), offset included
normalize_date_en_rss(raw) ==
    IF raw.k \in {"None", "empty"} THEN Ret(None)
    ELSE LET s == Strip(raw)
         IN  IF EndsWithZ(s) THEN Ret(s)
             ELSE IF FromIsoOk(s) THEN
                 (IF s.tz = "naive" THEN Ret(DateV("iso", s.t, 0, "Z", FALSE))
                  ELSE Ret(DateV("text", s.t, s.off, "Z", FALSE)))
             ELSE IF ParseDateOk(s) THEN Ret(UtcIsoformat(Instant(s)))
             ELSE Ret(None)

(***************************************************************************)
(* Items.  Titles, links and ids are token sequences; MD5 is a tagged copy *)
(* of its argument (a hash without collisions).                            *)
(***************************************************************************)
MD5(x) == <<"md5">> \o x

\* Python's "a or b" on strings
Or(a, b) == IF a # <<>> THEN a ELSE b

\* str(n)
Str(n) == <<ToString(n)>>

Item(id, title, link, pub) == [id |-> id, title |-> title, link |-> link, publishedAt |-> pub]

\* json_out: the document written
json_out(items) == [count |-> Len(items), items |-> items]

NoDoc == [count |-> 0, items |-> <<>>]

\* one entry of scrape_sbs_zh_hant_rss.fetch_items; seen is seen_links;
\* pageDate is what fetch_date_from_page returns for the entry's link
ZhRssStep(items, seen, link, title, published_raw, pageDate) ==
    LET n1        == IF published_raw.k # "None"
                     THEN normalize_date_zh_rss(published_raw).val ELSE None
        published == IF n1.k = "None" /\ link # <<>> THEN pageDate ELSE n1
        key       == Or(link, title)
        it        == Item(MD5(Or(link, Or(title, Str(Len(items))))),
                          Or(title, link), link, published)
    IN  IF key \in seen THEN [items |-> items, seen |-> seen]
        ELSE [items |-> Append(items, it), seen |-> seen \cup {key}]

\* one entry of scrape_sbs_en_rss.fetch_items
EnRssItem(link, title, published_raw, pageDate) ==
    LET n1        == normalize_date_en_rss(published_raw).val
        fromPage  == IF link = <<>> THEN None ELSE pageDate
        published == IF published_raw.k = "None" THEN fromPage
                     ELSE IF n1.k # "None" THEN n1 ELSE fromPage
    IN  Item(IF link # <<>> THEN MD5(link) ELSE MD5(title),
             Or(title, link), link, published)

\* key_dt of the final sort: min says the key is datetime.min
key_dt(pub) ==
    IF pub.k \in {"None", "empty"} THEN [min |-> TRUE, at |-> 0]
    ELSE IF FromIsoOk(pub) THEN [min |-> FALSE, at |-> Instant(pub)]
    ELSE [min |-> TRUE, at |-> 0]

\* a < b on sort keys
KeyLess(a, b) ==
    \/ a.min /\ ~b.min
    \/ ~a.min /\ ~b.min /\ a.at < b.at

(***************************************************************************)
(* Sorting and truncation.                                                 *)
(***************************************************************************)
Min(a, b) == IF a <= b THEN a ELSE b

\* list[:n]
Take(s, n) == SubSeq(s, 1, Min(Len(s), n))

\* list.sort(key=key_dt, reverse=True): stable, so an item goes behind every
\* item whose key is not smaller than its own
InsertDesc(sorted, x) ==
    LET i == IF \E j \in 1..Len(sorted) :
                    KeyLess(key_dt(sorted[j].publishedAt), key_dt(x.publishedAt))
             THEN CHOOSE j \in 1..Len(sorted) :
                    /\ KeyLess(key_dt(sorted[j].publishedAt), key_dt(x.publishedAt))
                    /\ \A m \in 1..(j-1) :
                        ~KeyLess(key_dt(sorted[m].publishedAt), key_dt(x.publishedAt))
             ELSE Len(sorted) + 1
    IN  SubSeq(sorted, 1, i - 1) \o <<x>> \o SubSeq(sorted, i, Len(sorted))

RECURSIVE SortDesc(_)
SortDesc(items) ==
    IF items = <<>> THEN <<>>
    ELSE InsertDesc(SortDesc(SubSeq(items, 1, Len(items) - 1)), items[Len(items)])

(***************************************************************************)
(* scrape_aucd_rss.                                                        *)
(***************************************************************************)
\* one entry of parse_feed; pageDate is what fetch_date_from_page returns
aucd_feed_item(link, title, published, pageDate) ==
    LET n1       == IF published.k # "None" THEN normalize_date(published).val ELSE None
        pub_norm == IF n1.k = "None" /\ link # <<>> THEN pageDate ELSE n1
    IN  Item(MD5(Or(link, title)), Or(title, link), link, pub_norm)

\* pageTitle is the title extract_title_desc_from_page finds, <<>> when the
\* fetch fails or the page has none
make_item_from_article(url, pageTitle, pageDate) ==
    LET title == Or(pageTitle, url)
    IN  Item(MD5(Or(url, title)), Or(title, url), url, pageDate)

AucdKey(it) == Or(it.link, it.id)

RECURSIVE AucdDedupe(_, _)
AucdDedupe(all_items, seen) ==
    IF all_items = <<>> THEN <<>>
    ELSE LET it == Head(all_items)
         IN  IF AucdKey(it) \in seen THEN AucdDedupe(Tail(all_items), seen)
             ELSE <<it>> \o AucdDedupe(Tail(all_items), seen \cup {AucdKey(it)})

merge_dedupe(all_items) == SortDesc(AucdDedupe(all_items, {}))

\* the bag cut to MAX_ITEMS before it is merged and sorted
aucd_merged_cut_first(b) == merge_dedupe(Take(b, MAX_ITEMS_AUCD))

\* merged = merge_dedupe(bag)[:MAX_ITEMS]
aucd_merged(b) == Take(merge_dedupe(b), MAX_ITEMS_AUCD)

(***************************************************************************)
(* The crawl-based scrapers.  A page is what a fetch returns: ld says that *)
(* parse_json_ld finds an article object, headline and ldDate are its      *)
(* fields, metaTitle and metaDate what extract_meta_from_html finds, href  *)
(* the <link rel=canonical> href, html whether the Content-Type is HTML    *)
(* and zh whether the page declares zh-Hant.  desc is the description the  *)
(* page carries (JSON-LD description, og:description, meta description),   *)
(* which make_item copies into the item's summary.                         *)
(***************************************************************************)
Page(ld, headline, ldDate, metaTitle, metaDate, href, html, zh) ==
    [ld |-> ld, headline |-> headline, ldDate |-> ldDate, metaTitle |-> metaTitle,
     metaDate |-> metaDate, href |-> href, html |-> html, zh |-> zh, desc |-> <<>>]

\* the page with the description d
WithDesc(page, d) == [page EXCEPT !.desc = d]

Ok(v) == [st |-> "ok", val |-> v]

NoExtract == [st |-> "raise", val |-> <<>>]

\* title and pub from extract_meta_from_html
ExtractMeta(page, n2) ==
    IF n2.st = "raise" THEN NoExtract
    ELSE Ok([title |-> page.metaTitle, pub |-> n2.val])

\* the "if ld:" branch with the date of the meta tags taken whenever
\* JSON-LD gives none, also under a JSON-LD title
ExtractLdMetaDate(page, n1) ==
    IF n1.st = "raise" THEN NoExtract
    ELSE IF n1.val.k # "None" THEN Ok([title |-> Or(page.headline, page.metaTitle),
                                       pub |-> n1.val])
    ELSE Ok([title |-> Or(page.headline, page.metaTitle),
             pub |-> normalize_date(page.metaDate).val])

\* the "if ld:" branch, n1 being normalize_date(ld.get("datePublished") or None)
ExtractLd(page, n1) ==
    IF n1.st = "raise" THEN NoExtract
    ELSE IF page.headline # <<>> THEN Ok([title |-> page.headline, pub |-> n1.val])
    ELSE IF n1.val.k # "None" THEN Ok([title |-> page.metaTitle, pub |-> n1.val])
    ELSE ExtractMeta(page, normalize_date(page.metaDate))

\* the title and publishedAt block that make_item has in all five scripts
ExtractTitlePub(page) ==
    IF page.ld
    THEN ExtractLd(page, normalize_date(IF page.ldDate.k = "empty" THEN None
                                        ELSE page.ldDate))
    ELSE ExtractMeta(page, normalize_date(page.metaDate))

\* the link make_item gives the item
ItemLink(sc, url, page) ==
    CASE sc = "7news" -> canonicalize_link(url, page.href)
      [] sc = "9news" -> canonicalize_link9(url, page.href)
      [] OTHER        -> url

\* what the id is the MD5 of
ItemIdText(sc, url, page) ==
    CASE sc = "7news" -> canonicalize_link(url, page.href)
      [] sc = "9news" -> canonicalize_link9(url, page.href)
      [] sc = "abc"   -> canonical_abc_url(url)
      [] OTHER        -> url

BuildItem(e, link, idText) ==
    IF e.st = "raise" THEN [st |-> "raise", val |-> Item(<<>>, <<>>, <<>>, None)]
    ELSE Ok(Item(MD5(idText), Or(e.val.title, link), link, e.val.pub))

make_item(sc, url, page) ==
    BuildItem(ExtractTitlePub(page), ItemLink(sc, url, page), ItemIdText(sc, url, page))

\* looks_like_article_url of scrape_7news_en
LooksLikeArticle(u, p) ==
    /\ u # <<>>
    /\ p.scheme \in {"http", "https"}
    /\ "h" \in Range(p.netloc)
    /\ \E i \in 1..Len(p.path) : p.path[i] # "/"

looks_like_article_url(u) == LooksLikeArticle(u, urlparse(u))

\* is_non_news_url and the .xml test of scrape_9news_en
is_non_news_url(u) == "meet-the-team" \in Range(u) \/ "sitemap.xml" \in Range(u)

\* looks_zh_hant_by_url
looks_zh_hant_by_url(u) == "zh-hant" \in Range(u)

RECURSIVE DedupeRaw(_, _)
\* seen, merged = set(), []: the first occurrence of each URL, in order
DedupeRaw(urls, seen) ==
    IF urls = <<>> THEN <<>>
    ELSE IF Head(urls) \in seen THEN DedupeRaw(Tail(urls), seen)
    ELSE <<Head(urls)>> \o DedupeRaw(Tail(urls), seen \cup {Head(urls)})

\* [canonical_abc_url(u) for u in urls]
CanonAll(urls) == [i \in 1..Len(urls) |-> canonical_abc_url(urls[i])]

RECURSIVE Merge7(_, _)
Merge7(urls, seen) ==
    IF urls = <<>> THEN <<>>
    ELSE IF Head(urls) \notin seen /\ looks_like_article_url(Head(urls))
         THEN <<Head(urls)>> \o Merge7(Tail(urls), seen \cup {Head(urls)})
         ELSE Merge7(Tail(urls), seen)

\* the merge with the sources in another order: the crawl's URLs first
MergeUrlsCrawlFirst(sc, a, b, c) ==
    CASE sc = "7news" -> Merge7(c \o a \o b, {})
      [] sc = "abc"   -> DedupeRaw(CanonAll(c \o a \o b), {})
      [] OTHER        -> DedupeRaw(c \o a \o b, {})

MergeUrls(sc, a, b, c) ==
    CASE sc = "7news" -> Merge7(a \o b \o c, {})
      [] sc = "abc"   -> DedupeRaw(CanonAll(a \o b \o c), {})
      [] OTHER        -> DedupeRaw(a \o b \o c, {})

Links(items) == {items[i].link : i \in 1..Len(items)}

\* a fetch either raises or returns a page
Raised(o) == o.r = "raise"

Step(arts, seen, fet, brk, kind, link) ==
    [articles |-> arts, seen_links |-> seen, fetched |-> fet, brk |-> brk,
     kind |-> kind, link |-> link]

\* the two places an exception handler sends the loop: on to the next URL
Continue(i, n) == i + 1

\* out of the loop
Abandon(i, n) == n + 1

\* except Exception: print a warning; the for loop goes on
AfterException(i, n) == Continue(i, n)

Skip(arts, seen, fet) == Step(arts, seen, fet, FALSE, "skip", <<>>)

Exc(arts, seen, fet) == Step(arts, seen, fet, FALSE, "exception", <<>>)

\* the item is appended; cap is the length at which the loop breaks (0: the
\* loop has no cap)
Appended(arts, seen, fet, item, cap) ==
    Step(Append(arts, item), seen, fet, cap > 0 /\ Len(arts) + 1 >= cap,
         "item", item.link)

\* scrape_7news_en, both loops: link_final against seen_links, then make_item
Step7(arts, seen, fet, o, link_final, mi, cap) ==
    IF Raised(o) THEN Exc(arts, seen, fet)
    ELSE IF link_final \in seen THEN Skip(arts, seen, fet)
    ELSE IF mi.st = "raise" THEN Exc(arts, seen, fet)
    ELSE Appended(arts, seen \cup {link_final}, fet, mi.val, cap)

\* scrape_9news_en, article loop: fetch_html gives None when the fetch fails
\* or the page is not HTML; the item's link against the links of articles
Primary9(arts, seen, fet, u, o, mi) ==
    IF is_non_news_url(u) THEN Skip(arts, seen, fet)
    ELSE IF Raised(o) \/ ~o.page.html THEN Skip(arts, seen, fet)
    ELSE IF mi.st = "raise" THEN Exc(arts, seen, fet)
    ELSE IF mi.val.link \in Links(arts) THEN Skip(arts, seen, fet)
    ELSE Appended(arts, seen, fet, mi.val, 0)

\* scrape_9news_en, Google News loop: link_final against seen_links
Fallback9(arts, seen, fet, u, o, link_final, mi) ==
    IF is_non_news_url(u) THEN Skip(arts, seen, fet)
    ELSE Step7(arts, seen, fet, o, link_final, mi, MAX_ITEMS)

\* scrape_abc_en, all three loops: cu against fetched, the link against the
\* links of articles
StepAbc(arts, seen, fet, o, cu, mi, cap) ==
    IF cu \in fet THEN Skip(arts, seen, fet)
    ELSE IF Raised(o) THEN Exc(arts, seen, fet)
    ELSE IF mi.st = "raise" THEN Exc(arts, seen, fet)
    ELSE IF mi.val.link \in Links(arts) THEN Skip(arts, seen, fet)
    ELSE Appended(arts, seen, fet \cup {cu}, mi.val, cap)

\* scrape_sbs_en and scrape_sbs_zh_hant: isZh is the language test (TRUE in
\* scrape_sbs_en), byLink whether the loop tests the link against articles
StepSbs(arts, seen, fet, o, isZh, mi, byLink, cap) ==
    IF Raised(o) THEN Exc(arts, seen, fet)
    ELSE IF ~isZh THEN Skip(arts, seen, fet)
    ELSE IF mi.st = "raise" THEN Exc(arts, seen, fet)
    ELSE IF byLink /\ mi.val.link \in Links(arts) THEN Skip(arts, seen, fet)
    ELSE Appended(arts, seen, fet, mi.val, cap)

\* one pass of the article loop of __main__ for the merged URL u, o being
\* what the fetch does
PrimaryStep(sc, arts, seen, fet, u, o) ==
    CASE sc = "7news" ->
             Step7(arts, seen, fet, o, canonicalize_link(u, o.page.href),
                   make_item(sc, u, o.page), MAX_ITEMS * 2)
      [] sc = "9news" ->
             Primary9(arts, seen, fet, u, o, make_item(sc, u, o.page))
      [] sc = "abc" ->
             StepAbc(arts, seen, fet, o, canonical_abc_url(u),
                     make_item(sc, canonical_abc_url(u), o.page), 0)
      [] sc = "sbs_en" ->
             StepSbs(arts, seen, fet, o, TRUE, make_item(sc, u, o.page), FALSE, 0)
      [] sc = "sbs_zh_hant" ->
             StepSbs(arts, seen, fet, o, looks_zh_hant_by_url(u) \/ o.page.zh,
                     make_item(sc, u, o.page), FALSE, MAX_ITEMS * 3)

\* one pass of a fallback loop (ABC RSS, Google News) for the URL u
FallbackStep(sc, arts, seen, fet, u, o) ==
    CASE sc = "7news" ->
             Step7(arts, seen, fet, o, canonicalize_link(u, o.page.href),
                   make_item(sc, u, o.page), MAX_ITEMS)
      [] sc = "9news" ->
             Fallback9(arts, seen, fet, u, o, canonicalize_link9(u, o.page.href),
                       make_item(sc, u, o.page))
      [] sc = "abc" ->
             StepAbc(arts, seen, fet, o, canonical_abc_url(u),
                     make_item(sc, canonical_abc_url(u), o.page), MAX_ITEMS)
      [] sc = "sbs_en" ->
             StepSbs(arts, seen, fet, o, TRUE, make_item(sc, u, o.page), TRUE, 0)
      [] sc = "sbs_zh_hant" ->
             StepSbs(arts, seen, fet, o, looks_zh_hant_by_url(u) \/ o.page.zh,
                     make_item(sc, u, o.page), TRUE, MAX_ITEMS * 3)

(***************************************************************************)
(* Each specification below runs one part of the repository; the variables *)
(* of the other parts rest at these values.                                *)
(***************************************************************************)
UrlIdle ==
    /\ uIn = <<>>
    /\ uFn = "none"
    /\ uOut1 = <<>>
    /\ uOut2 = <<>>
    /\ uStep = 0
    /\ uHref = <<>>

DateIdle ==
    /\ dRaw = None
    /\ dRes = Ret(None)
    /\ dKey = key_dt(None)
    /\ dStep = 0
    /\ dFn = "none"

FeedIdle ==
    /\ fScript = "none"
    /\ fItems = <<>>
    /\ fSeen = {}
    /\ fTaken = 0
    /\ fPc = "idle"
    /\ fDoc = NoDoc

AucdIdle ==
    /\ bag = <<>>
    /\ aPc = "idle"
    /\ aDoc = NoDoc
    /\ aLog = <<>>

RunIdle ==
    /\ script = "none"
    /\ urls_a = <<>>
    /\ urls_b = <<>>
    /\ urls_crawl = <<>>
    /\ urls_fb = <<>>
    /\ merged = <<>>
    /\ idx = 0
    /\ pc = "idle"
    /\ articles = <<>>
    /\ seen_links = {}
    /\ fetched = {}
    /\ doc = NoDoc
    /\ trace = <<>>

ExtractIdle ==
    /\ xBlocks = <<>>
    /\ xOg = <<>>
    /\ xTitleTag = <<>>
    /\ xItem = Ok(Item(<<>>, <<>>, <<>>, None))
    /\ xStep = 0

CrIdle ==
    /\ crFeed = 0
    /\ crPage = 0
    /\ crItems = <<>>
    /\ crCollected = <<>>
    /\ crSeen = {}
    /\ crNow = 0
    /\ crLog = <<>>
    /\ crAsked = <<>>
    /\ crPc = "idle"
    /\ crDoc = NoDoc

\* sbs_zh_hant.json is not there
NoFile == [exists |-> FALSE, json |-> FALSE, doc |-> NoDoc]

FixIdle ==
    /\ fxFile = NoFile
    /\ fxIn = NoFile
    /\ fxItems = <<>>
    /\ fxIdx = 0
    /\ fxFetched = <<>>
    /\ fxChanged = 0
    /\ fxErr = 0
    /\ fxExit = -1
    /\ fxPc = "idle"

CrawlIdle ==
    /\ cwScript = "none"
    /\ cwSeeds = <<>>
    /\ cwHrefs = <<>>
    /\ cwQ = <<>>
    /\ seen_pages = {}
    /\ found_articles = <<>>
    /\ pages_visited = 0
    /\ cwFetched = <<>>
    /\ cwEnqueued = <<>>
    /\ cwRes = <<>>
    /\ cwPc = "idle"

SmIdle ==
    /\ smScript = "none"
    /\ smRobots = <<>>
    /\ smIdx = 0
    /\ smOut = <<>>
    /\ smRes = <<>>
    /\ smPc = "idle"

ItemIdle ==
    /\ miScript = "none"
    /\ miUrl = <<>>
    /\ miHint = <<>>
    /\ miPage = <<>>
    /\ miItem = <<>>
    /\ miPc = "idle"

LastIdle == CrawlIdle /\ SmIdle /\ ItemIdle

LaterIdle == ExtractIdle /\ CrIdle /\ FixIdle /\ LastIdle

(***************************************************************************)
(* SpecDate: normalize_date applied to one raw value, and the sort key of  *)
(* what it returned.                                                       *)
(***************************************************************************)
InitDate ==
    /\ dRaw \in RawDates
    /\ dRes = Ret(None)
    /\ dKey = key_dt(None)
    /\ dStep = 0
    /\ dFn = "none"
    /\ UrlIdle
    /\ FeedIdle
    /\ AucdIdle
    /\ RunIdle
    /\ LaterIdle

NormalizeDate ==
    /\ dStep = 0
    /\ dFn' = "crawl"
    /\ dRes' = normalize_date(dRaw)
    /\ dStep' = 1
    /\ UNCHANGED <<laterVars, urlVars, feedVars, aucdVars, runVars, dRaw, dKey>>

\* normalize_date of scrape_sbs_en_rss; feedparser hands it text or None
NormalizeDateEnRss ==
    /\ dStep = 0
    /\ dRaw.k # "nonstr"
    /\ dFn' = "sbs_en_rss"
    /\ dRes' = normalize_date_en_rss(dRaw)
    /\ dStep' = 1
    /\ UNCHANGED <<laterVars, urlVars, feedVars, aucdVars, runVars, dRaw, dKey>>

SortKey ==
    /\ dStep = 1
    /\ dRes.st = "ret"
    /\ dKey' = key_dt(dRes.val)
    /\ dStep' = 2
    /\ UNCHANGED <<laterVars, urlVars, feedVars, aucdVars, runVars, dRaw, dRes, dFn>>

NextDate == NormalizeDate \/ NormalizeDateEnRss \/ SortKey

SpecDate == InitDate /\ [][NextDate]_vars

IsUtcIso(s) == s.k = "iso" /\ ~s.pad /\ (s.tz = "Z" \/ (s.tz = "num" /\ s.off = 0))

AcceptedFormat(s) == s.k \in {"iso", "rfc"}

\* C5: for every input in an accepted format (ISO-8601 with Z, with a numeric
\* offset or without zone, RFC-822/1123) normalize_date returns a non-null
\* UTC ISO-8601 string that denotes the same instant.
C5_RoundTrip ==
    (dFn = "crawl" /\ dStep >= 1 /\ AcceptedFormat(dRaw)) =>
        /\ dRes.st = "ret"
        /\ IsUtcIso(dRes.val)
        /\ Instant(dRes.val) = Instant(dRaw)

NotADate(s) == s.k \in {"None", "empty", "blank", "text", "nonstr"}

\* C6: for every value that is not a valid date (None, empty or blank string,
\* non-date text, a JSON-LD value that is not a string) normalize_date
\* returns null and does not raise.
C6_NullNeverRaises ==
    (dFn = "crawl" /\ dStep >= 1 /\ NotADate(dRaw)) => dRes = Ret(None)

\* C17: normalize_date of scrape_sbs_en_rss, given an ISO-8601 text with a
\* non-zero offset or without zone, returns a well-formed ISO-8601 UTC string
\* that denotes the same instant (a zone-less text being read as UTC).
C17_EnRssToUtc ==
    (/\ dFn = "sbs_en_rss"
     /\ dStep >= 1
     /\ dRaw.k = "iso"
     /\ dRaw.tz = "naive" \/ (dRaw.tz = "num" /\ dRaw.off # 0)) =>
        /\ dRes.st = "ret"
        /\ IsUtcIso(dRes.val)
        /\ Instant(dRes.val) = Instant(dRaw)

(***************************************************************************)
(* SpecFeed: a run of one of the feed-only scrapers.  The feed's entries   *)
(* arrive one at a time; an entry has a link, a title and a published      *)
(* text, each possibly absent, and the page behind the link may carry a    *)
(* date.                                                                   *)
(***************************************************************************)
L1 == <<"https:", "/", "/", "h", "/", "a">>

L2 == <<"https:", "/", "/", "h", "/", "b">>

FeedLinks == {<<>>, L1, L2}

FeedTitles == {<<>>, <<"T1">>, <<"T2">>}

FeedPublished == {None, DateV("rfc", 1, 0, "GMT", FALSE)}

PageDates == {None, DateV("iso", 2, 0, "Z", FALSE)}

InitFeed ==
    /\ fScript \in {"sbs_en_rss", "sbs_zh_hant_rss"}
    /\ fItems = <<>>
    /\ fSeen = {}
    /\ fTaken = 0
    /\ fPc = "read"
    /\ fDoc = NoDoc
    /\ UrlIdle
    /\ DateIdle
    /\ AucdIdle
    /\ RunIdle
    /\ LaterIdle

\* the loop body of scrape_sbs_zh_hant_rss.fetch_items for one more entry
\* of feed.entries[:MAX_ITEMS]
ZhRssEntry ==
    /\ fScript = "sbs_zh_hant_rss"
    /\ fPc = "read"
    /\ fTaken < MAX_ITEMS_RSS
    /\ \E link \in FeedLinks, title \in FeedTitles,
          pub \in FeedPublished, pageDate \in PageDates :
          LET r == ZhRssStep(fItems, fSeen, link, title, pub, pageDate)
          IN  /\ fItems' = r.items
              /\ fSeen' = r.seen
    /\ fTaken' = fTaken + 1
    /\ UNCHANGED <<laterVars, urlVars, dateVars, aucdVars, runVars, fScript, fPc, fDoc>>

\* the loop body of scrape_sbs_en_rss.fetch_items for one more entry
EnRssEntry ==
    /\ fScript = "sbs_en_rss"
    /\ fPc = "read"
    /\ fTaken < MAX_ITEMS_RSS
    /\ \E link \in FeedLinks, title \in FeedTitles,
          pub \in FeedPublished, pageDate \in PageDates :
          fItems' = Append(fItems, EnRssItem(link, title, pub, pageDate))
    /\ fTaken' = fTaken + 1
    /\ UNCHANGED <<laterVars, urlVars, dateVars, aucdVars, runVars, fScript, fSeen, fPc, fDoc>>

\* the feed has no further entry (or MAX_ITEMS were read): json_out
FeedWrite ==
    /\ fPc = "read"
    /\ fDoc' = json_out(fItems)
    /\ fPc' = "done"
    /\ UNCHANGED <<laterVars, urlVars, dateVars, aucdVars, runVars, fScript, fItems, fSeen, fTaken>>

NextFeed == ZhRssEntry \/ EnRssEntry \/ FeedWrite

SpecFeed == InitFeed /\ [][NextFeed]_vars

\* C9: every item of a written document has a non-empty title (the link
\* stands in when no title text could be extracted).
C9_TitleNonEmpty ==
    fPc = "done" =>
        \A i \in 1..Len(fDoc.items) : fDoc.items[i].title # <<>>

\* C8: the id of a written item is the MD5 of its link (of its title where
\* the entry has no link), so it depends on neither the position in the list
\* nor the time of the fetch, and two items that have links have equal ids
\* exactly when the links are equal.
C8_IdFromLink ==
    fPc = "done" =>
        /\ \A i \in 1..Len(fDoc.items) :
               fDoc.items[i].id = MD5(Or(fDoc.items[i].link, fDoc.items[i].title))
        /\ \A i, j \in 1..Len(fDoc.items) :
               (fDoc.items[i].link # <<>> /\ fDoc.items[j].link # <<>>) =>
                   ((fDoc.items[i].id = fDoc.items[j].id)
                        <=> (fDoc.items[i].link = fDoc.items[j].link))

(***************************************************************************)
(* SpecAucd: a run of scrape_aucd_rss.  The feed pages yield entries, the  *)
(* category pages yield article links, then the bag is merged and written. *)
(***************************************************************************)
AucdPublished == {None, DateV("rfc", 1, 0, "GMT", FALSE), DateV("rfc", 2, 0, "Z", FALSE)}

AucdPageDates == {None, DateV("iso", 2, 0, "Z", FALSE)}

AucdTitles == {<<>>, <<"T1">>}

\* fetch_html: r.text, None when the request raises; found is what the
\* caller reads from the page, none what it returns for "if not html"
fetch_html(ok, found, none) == IF ok THEN found ELSE none

AucdLogged(src, link, failed) == [src |-> src, link |-> link, failed |-> failed]

InitAucd ==
    /\ bag = <<>>
    /\ aPc = "feeds"
    /\ aDoc = NoDoc
    /\ aLog = <<>>
    /\ UrlIdle
    /\ DateIdle
    /\ FeedIdle
    /\ RunIdle
    /\ LaterIdle

\* bag.extend(parse_feed(u)), one entry at a time
AucdFeedEntry ==
    /\ aPc = "feeds"
    /\ Len(bag) < MaxBag
    /\ \E link \in FeedLinks, title \in AucdTitles,
          published \in AucdPublished, pageDate \in AucdPageDates :
          /\ bag' = Append(bag, aucd_feed_item(link, title, published, pageDate))
          /\ aLog' = Append(aLog, AucdLogged("feed", link, FALSE))
    /\ UNCHANGED <<laterVars, urlVars, dateVars, feedVars, runVars, aPc, aDoc>>

\* the feed pages are exhausted: crawl_categories
AucdCrawlCategories ==
    /\ aPc = "feeds"
    /\ aPc' = "categories"
    /\ UNCHANGED <<laterVars, urlVars, dateVars, feedVars, runVars, bag, aDoc, aLog>>

\* bag.append(make_item_from_article(link)) for one category link.
\* extract_title_desc_from_page and fetch_date_from_page fetch the page once
\* each; ok1 and ok2 say whether fetch_html gets it
AucdCategoryArticle ==
    /\ aPc = "categories"
    /\ Len(bag) < MaxBag
    /\ \E link \in FeedLinks \ {<<>>}, pageTitle \in AucdTitles,
          pageDate \in AucdPageDates, ok1 \in BOOLEAN, ok2 \in BOOLEAN :
          /\ bag' = Append(bag, make_item_from_article(link,
                                    fetch_html(ok1, pageTitle, <<>>),
                                    fetch_html(ok2, pageDate, None)))
          /\ aLog' = Append(aLog, AucdLogged("category", link, ~ok1 /\ ~ok2))
    /\ UNCHANGED <<laterVars, urlVars, dateVars, feedVars, runVars, aPc, aDoc>>

\* merged = merge_dedupe(bag)[:MAX_ITEMS]; json_out(merged, ...)
AucdWrite ==
    /\ aPc = "categories"
    /\ aDoc' = json_out(aucd_merged(bag))
    /\ aPc' = "done"
    /\ UNCHANGED <<laterVars, urlVars, dateVars, feedVars, runVars, bag, aLog>>

NextAucd == AucdFeedEntry \/ AucdCrawlCategories \/ AucdCategoryArticle \/ AucdWrite

SpecAucd == InitAucd /\ [][NextAucd]_vars

HasDate(it) == it.publishedAt.k # "None"

\* C2: in the sorted output, of two adjacent items that both have a
\* publishedAt the first is not the earlier one, and no item without
\* publishedAt stands before an item that has one.
C2_SortedNullsLast ==
    aPc = "done" =>
        /\ \A i \in 1..(Len(aDoc.items) - 1) :
               (HasDate(aDoc.items[i]) /\ HasDate(aDoc.items[i+1])) =>
                   Instant(aDoc.items[i].publishedAt)
                       >= Instant(aDoc.items[i+1].publishedAt)
        /\ \A i, j \in 1..Len(aDoc.items) :
               (~HasDate(aDoc.items[i]) /\ HasDate(aDoc.items[j])) => j < i

\* C13: a category article URL whose HTTP fetch fails is skipped and
\* contributes no item: the written document has no item with the link of a
\* category URL both of whose fetches failed and that no feed entry and no
\* other category URL carries.
C13_FailedFetchSkipped ==
    aPc = "done" =>
        \A j \in 1..Len(aLog) :
            (/\ aLog[j].src = "category"
             /\ aLog[j].failed
             /\ \A k \in 1..Len(aLog) : k # j => aLog[k].link # aLog[j].link)
                => aLog[j].link \notin Links(aDoc.items)

\* the positions in the bag of the items that de-duplication keeps
AucdFirsts == {i \in 1..Len(bag) : \A j \in 1..(i-1) : AucdKey(bag[j]) # AucdKey(bag[i])}

Newer(x, y) == KeyLess(key_dt(y.publishedAt), key_dt(x.publishedAt))

\* C3: the number of items written is min(number of items left after
\* de-duplication, MAX_ITEMS), and the items written are the first MAX_ITEMS
\* of the de-duplicated list sorted newest first (ties in bag order): each
\* written item is a kept item, they stand newest first, and no kept item
\* that was left out sorts before a written one.
C3_TruncateAfterSort ==
    aPc = "done" =>
        LET n == Min(Cardinality(AucdFirsts), MAX_ITEMS_AUCD)
        IN  /\ aDoc.count = n
            /\ Len(aDoc.items) = n
            /\ \E pos \in [1..n -> AucdFirsts] :
                 /\ \A i \in 1..n : bag[pos[i]] = aDoc.items[i]
                 /\ \A i, j \in 1..n : i < j =>
                        \/ Newer(aDoc.items[i], aDoc.items[j])
                        \/ /\ ~Newer(aDoc.items[j], aDoc.items[i])
                           /\ pos[i] < pos[j]
                 /\ \A k \in AucdFirsts \ Range(pos) : \A i \in 1..n :
                        \/ Newer(aDoc.items[i], bag[k])
                        \/ /\ ~Newer(bag[k], aDoc.items[i])
                           /\ k > pos[i]

\* more items are kept than MAX_ITEMS, and one of the first MAX_ITEMS kept
\* items is left out for a newer one that came later
C3_Witness ==
    /\ aPc = "done"
    /\ Cardinality(AucdFirsts) > MAX_ITEMS_AUCD
    /\ \E k \in AucdFirsts : \E i \in 1..Len(aDoc.items) :
          /\ \A m \in 1..Len(aDoc.items) : aDoc.items[m] # bag[k]
          /\ Newer(aDoc.items[i], bag[k])
          /\ \E q \in AucdFirsts : q > k /\ bag[q] = aDoc.items[i]

(***************************************************************************)
(* SpecRun: a run of __main__ of one crawl-based scraper: discovery, the   *)
(* merge, the article loop, the fallback loops, the sort and the write.    *)
(***************************************************************************)
Scripts == {"7news", "9news", "abc", "sbs_en", "sbs_zh_hant"}

Site(w) == <<"https:", "/", "/", "h", "/", w>>

UA == Site("a")

UB == Site("b")

UC == Site("c")

UD == Site("d")

UE == Site("e")

UAt == Site("a") \o <<"?", "utm">>

SitemapResults == {<<>>, <<UA, UB>>}

EntryResults == {<<>>, <<UAt, UC>>}

\* the site's front page: a URL whose path is "/"
UHome == <<"https:", "/", "/", "h", "/">>

CrawlResults == {<<>>, <<UB, UHome>>}

RssResults == {<<>>, <<UC, UE>>}

GoogleNewsResults == {<<>>, <<UA, UE>>}

T1 == <<"T1">>

PFull == WithDesc(Page(TRUE, T1, DateV("iso", 1, 0, "Z", FALSE), T1, None, <<>>,
                      TRUE, TRUE), <<"S">>)

PBare == Page(FALSE, <<>>, None, <<>>, None, <<>>, TRUE, TRUE)

PBadLd == Page(TRUE, T1, NonStr, T1, None, <<>>, TRUE, TRUE)

PNonHtml == Page(FALSE, <<>>, None, <<>>, None, <<>>, FALSE, TRUE)

PEnglish == Page(FALSE, <<>>, None, T1, None, <<>>, TRUE, FALSE)

Outcomes(sc) ==
    {[r |-> "raise", page |-> PBare]}
    \cup {[r |-> "page", page |-> pg] : pg \in {PFull, PBare, PBadLd}}
    \cup (IF sc = "9news" THEN {[r |-> "page", page |-> PNonHtml]} ELSE {})
    \cup (IF sc = "sbs_zh_hant" THEN {[r |-> "page", page |-> PEnglish]} ELSE {})

InitRun ==
    /\ script \in Scripts
    /\ urls_a = <<>>
    /\ urls_b = <<>>
    /\ urls_crawl = <<>>
    /\ urls_fb = <<>>
    /\ merged = <<>>
    /\ idx = 0
    /\ pc = "discover"
    /\ articles = <<>>
    /\ seen_links = {}
    /\ fetched = {}
    /\ doc = NoDoc
    /\ trace = <<>>
    /\ UrlIdle
    /\ DateIdle
    /\ FeedIdle
    /\ AucdIdle
    /\ LaterIdle

otherVars == <<urlVars, dateVars, feedVars, aucdVars, laterVars>>

\* collect_from_sitemaps, collect_from_entrypages, the crawl
Discover ==
    /\ pc = "discover"
    /\ urls_a' \in SitemapResults
    /\ urls_b' \in EntryResults
    /\ urls_crawl' \in CrawlResults
    /\ pc' = "merge"
    /\ UNCHANGED <<otherVars, script, urls_fb, merged, idx, articles, seen_links,
                   fetched, doc, trace>>

\* the merge of urls_a + urls_b + urls_crawl
MergeSources ==
    /\ pc = "merge"
    /\ merged' = MergeUrls(script, urls_a, urls_b, urls_crawl)
    /\ idx' = 1
    /\ pc' = "loop"
    /\ UNCHANGED <<otherVars, script, urls_a, urls_b, urls_crawl, urls_fb, articles,
                   seen_links, fetched, doc, trace>>

\* what one pass of a loop over a list of n URLs leaves behind
Advance(r, n) ==
    /\ articles' = r.articles
    /\ seen_links' = r.seen_links
    /\ fetched' = r.fetched
    /\ idx' = IF r.brk THEN n + 1
              ELSE IF r.kind = "exception" THEN AfterException(idx, n)
              ELSE Continue(idx, n)

\* the record of the pass: the URL, what its fetch did, how the pass ended
Logged(r, u, o) ==
    trace' = Append(trace, [u |-> u, o |-> o, kind |-> r.kind, link |-> r.link,
                            brk |-> r.brk])

AdvanceLogged(r, u, o, n) == Advance(r, n) /\ Logged(r, u, o)

\* one pass of "for u in merged"
FetchArticle ==
    /\ pc = "loop"
    /\ idx <= Len(merged)
    /\ \E o \in Outcomes(script) :
          AdvanceLogged(PrimaryStep(script, articles, seen_links, fetched,
                                    merged[idx], o),
                        merged[idx], o, Len(merged))
    /\ UNCHANGED <<otherVars, script, urls_a, urls_b, urls_crawl, urls_fb, merged, pc, doc>>

\* the test of a fallback with the articles one more than it allows
few_items_or_half(arts) == Len(arts) <= MAX_ITEMS \div 2

\* "if len(articles) < MAX_ITEMS // 2", the test in front of every fallback
few_items(arts) == Len(arts) < MAX_ITEMS \div 2

\* the article loop is over: "if len(articles) < MAX_ITEMS // 2" opens the
\* fallback (ABC RSS for scrape_abc_en, Google News for the others)
EndLoop ==
    /\ pc = "loop"
    /\ idx > Len(merged)
    /\ IF few_items(articles)
       THEN /\ urls_fb' \in (IF script = "abc" THEN RssResults ELSE GoogleNewsResults)
            /\ pc' = IF script = "abc" THEN "rss" ELSE "gn"
            /\ idx' = 1
       ELSE /\ pc' = "sort"
            /\ UNCHANGED <<urls_fb, idx>>
    /\ UNCHANGED <<otherVars, script, urls_a, urls_b, urls_crawl, merged, articles,
                   seen_links, fetched, doc, trace>>

\* one pass of a fallback loop
FetchFallback ==
    /\ pc \in {"rss", "gn"}
    /\ idx <= Len(urls_fb)
    /\ \E o \in Outcomes(script) :
          Advance(FallbackStep(script, articles, seen_links, fetched, urls_fb[idx], o),
                  Len(urls_fb))
    /\ UNCHANGED <<otherVars, script, urls_a, urls_b, urls_crawl, urls_fb, merged, pc,
                   doc, trace>>

\* a fallback loop is over: after ABC RSS the Google News fallback opens if
\* the articles are still few
EndFallback ==
    /\ pc \in {"rss", "gn"}
    /\ idx > Len(urls_fb)
    /\ IF pc = "rss" /\ few_items(articles)
       THEN /\ urls_fb' \in GoogleNewsResults
            /\ pc' = "gn"
            /\ idx' = 1
       ELSE /\ pc' = "sort"
            /\ UNCHANGED <<urls_fb, idx>>
    /\ UNCHANGED <<otherVars, script, urls_a, urls_b, urls_crawl, merged, articles,
                   seen_links, fetched, doc, trace>>

\* articles.sort(key=key_dt, reverse=True); latest = articles[:MAX_ITEMS];
\* json_out(latest, ...)
SortAndWrite ==
    /\ pc = "sort"
    /\ articles' = SortDesc(articles)
    /\ doc' = json_out(Take(SortDesc(articles), MAX_ITEMS))
    /\ pc' = "done"
    /\ UNCHANGED <<otherVars, script, urls_a, urls_b, urls_crawl, urls_fb, merged, idx,
                   seen_links, fetched, trace>>

NextRun ==
    \/ Discover
    \/ MergeSources
    \/ FetchArticle
    \/ EndLoop
    \/ FetchFallback
    \/ EndFallback
    \/ SortAndWrite

SpecRun == InitRun /\ [][NextRun]_vars

RECURSIVE Replay(_, _, _)
\* the article loop run over the passes of tr that did not end in an
\* exception, st holding articles, seen_links and fetched
Replay(sc, tr, st) ==
    IF tr = <<>> THEN st
    ELSE IF Head(tr).kind = "exception" THEN Replay(sc, Tail(tr), st)
    ELSE Replay(sc, Tail(tr),
                PrimaryStep(sc, st.articles, st.seen_links, st.fetched,
                            Head(tr).u, Head(tr).o))

LoopState(arts, seen, fet) == [articles |-> arts, seen_links |-> seen, fetched |-> fet]

SameLoopState(st, arts, seen, fet) ==
    st.articles = arts /\ st.seen_links = seen /\ st.fetched = fet

\* at every point of the article loop: every merged URL before idx had its
\* pass (unless the item cap broke the loop), every item made is in
\* articles, and articles, seen_links and fetched are what the loop gives
\* when the URLs whose pass raised are left out
ExceptionSkipsOneUrl ==
    pc = "loop" =>
        /\ \/ Len(trace) = idx - 1
           \/ Len(trace) > 0 /\ trace[Len(trace)].brk /\ idx = Len(merged) + 1
        /\ \A i \in 1..Len(trace) : trace[i].u = merged[i]
        /\ \A i \in 1..Len(trace) :
               trace[i].kind = "item" => trace[i].link \in Links(articles)
        /\ SameLoopState(Replay(script, trace, LoopState(<<>>, {}, {})),
                         articles, seen_links, fetched)

\* the position of the run in __main__
RunRank ==
    CASE pc = "discover" -> 0
      [] pc = "merge"    -> 1
      [] pc = "loop"     -> 2
      [] pc = "rss"      -> 3
      [] pc = "gn"       -> 4
      [] pc = "sort"     -> 5
      [] pc = "done"     -> 6

\* a pass of the article loop, whatever its end, leaves the run in the loop
\* at the next URL (past the last one only when the item cap broke the loop),
\* and every step of the run moves it forward: on to a later phase, or on in
\* the URL list of the same phase
RunGoesOn ==
    /\ (pc = "loop" /\ idx <= Len(merged)) =>
           /\ pc' = "loop"
           /\ idx' = idx + 1 \/ trace'[Len(trace')].brk
    /\ \/ RunRank' > RunRank
       \/ RunRank' = RunRank /\ idx' > idx

\* C4: an exception in one pass of the article loop skips only that URL:
\* the loop goes on with the next URL, the other URLs give what they give
\* without the failed one, and the run keeps moving towards the sort and
\* the write (C4_Witness is a run that got there).
C4_ExceptionIsolated == []ExceptionSkipsOneUrl /\ [][RunGoesOn]_vars

\* a pass raised, a later pass made an item, and the item was written
C4_Witness ==
    /\ pc = "done"
    /\ \E i, j \in 1..Len(trace) :
          /\ i < j
          /\ trace[i].kind = "exception"
          /\ trace[j].kind = "item"
          /\ trace[j].link \in Links(doc.items)

\* make_item finds no title (no JSON-LD headline, no og:title, no <title>)
\* and no description in the page
NothingDerivable(page) ==
    /\ page.ld => page.headline = <<>>
    /\ page.metaTitle = <<>>
    /\ page.desc = <<>>

\* C14: a fetched page from which neither a title nor a summary can be
\* derived is discarded: its pass of the article loop appends no item and
\* reports no error.
C14_EmptyPageDiscarded ==
    \A i \in 1..Len(trace) :
        (~Raised(trace[i].o) /\ NothingDerivable(trace[i].o.page))
            => trace[i].kind = "skip"

\* C1: the links of the items of the written document are pairwise distinct.
C1_LinksDistinct ==
    pc = "done" =>
        \A i, j \in 1..Len(doc.items) :
            doc.items[i].link = doc.items[j].link => i = j

\* C10: the sitemap yields /a and /b and the entry pages yield /a?utm_source=x
\* and /c, every fetch succeeds: the output has exactly three items, with the
\* links /a, /b and /c.
C10_TrackingVariantMerged ==
    (/\ pc = "done"
     /\ urls_a = <<UA, UB>>
     /\ urls_b = <<UAt, UC>>
     /\ urls_crawl = <<>>
     /\ \A i \in 1..Len(trace) : trace[i].kind # "exception"
     /\ \A i \in 1..Len(trace) : trace[i].kind = "skip" => trace[i].u = UAt)
        => /\ doc.count = 3
           /\ Links(doc.items) = {UA, UB, UC}

(***************************************************************************)
(* SpecUrl: the canonicalization functions applied, and applied again, to  *)
(* a URL string.                                                           *)
(***************************************************************************)
UrlPrefixes == {<<>>, <<"/", "/">>, <<"http:", "/", "/">>}

UrlHosts == {<<>>, <<"h">>, <<"H">>}

TailToks == {"/", "?", "#", ";", "&", "utm", "k", "WT", "sf"}

UrlInputs == {pf \o hs \o tl : pf \in UrlPrefixes, hs \in UrlHosts,
                               tl \in SeqsUpTo(TailToks, MaxTailLen)}

InitUrl ==
    /\ uIn \in UrlInputs
    /\ uFn = "none"
    /\ uOut1 = <<>>
    /\ uOut2 = <<>>
    /\ uStep = 0
    /\ uHref = <<>>
    /\ DateIdle
    /\ FeedIdle
    /\ AucdIdle
    /\ RunIdle
    /\ LaterIdle

Canon(fn, u) ==
    CASE fn = "7news" -> canonicalize_link(u, <<>>)
      [] fn = "9news" -> canonicalize_link9(u, <<>>)
      [] fn = "abc"   -> canonical_abc_url(u)

Canonicalize7 ==
    /\ uStep = 0
    /\ uFn' = "7news"
    /\ uOut1' = canonicalize_link(uIn, <<>>)
    /\ uStep' = 1
    /\ UNCHANGED <<laterVars, dateVars, feedVars, aucdVars, runVars, uIn, uOut2, uHref>>

Canonicalize9 ==
    /\ uStep = 0
    /\ uFn' = "9news"
    /\ uOut1' = canonicalize_link9(uIn, <<>>)
    /\ uStep' = 1
    /\ UNCHANGED <<laterVars, dateVars, feedVars, aucdVars, runVars, uIn, uOut2, uHref>>

CanonicalizeAbc ==
    /\ uStep = 0
    /\ uFn' = "abc"
    /\ uOut1' = canonical_abc_url(uIn)
    /\ uStep' = 1
    /\ UNCHANGED <<laterVars, dateVars, feedVars, aucdVars, runVars, uIn, uOut2, uHref>>

CanonicalizeAgain ==
    /\ uStep = 1
    /\ uOut2' = Canon(uFn, uOut1)
    /\ uStep' = 2
    /\ UNCHANGED <<laterVars, dateVars, feedVars, aucdVars, runVars, uIn, uFn, uOut1, uHref>>

\* a URL that was fetched: it has a scheme and a host
Fetchable(p) == p.scheme # "" /\ p.netloc # <<>>

\* the href of the page's <link rel="canonical">: none, on the site's host,
\* on another host (with a scheme and scheme-relative), and a relative path
CanonicalHrefs ==
    {<<>>,
     <<"https:", "/", "/", "h", "/", "a">>,
     <<"https:", "/", "/", "o", "/", "a">>,
     <<"/", "/", "o", "/", "a">>,
     <<"/", "a">>}

\* link_final = canonicalize_link(u, html_text) of scrape_7news_en for the
\* fetched URL u
CanonicalizeFetched7 ==
    /\ uStep = 0
    /\ Fetchable(urlparse(uIn))
    /\ uFn' = "7news"
    /\ uHref' \in CanonicalHrefs
    /\ uOut1' = canonicalize_link(uIn, uHref')
    /\ uStep' = 3
    /\ UNCHANGED <<laterVars, dateVars, feedVars, aucdVars, runVars, uIn, uOut2>>

\* the same of scrape_9news_en
CanonicalizeFetched9 ==
    /\ uStep = 0
    /\ Fetchable(urlparse(uIn))
    /\ uFn' = "9news"
    /\ uHref' \in CanonicalHrefs
    /\ uOut1' = canonicalize_link9(uIn, uHref')
    /\ uStep' = 3
    /\ UNCHANGED <<laterVars, dateVars, feedVars, aucdVars, runVars, uIn, uOut2>>

NextUrl ==
    \/ Canonicalize7
    \/ Canonicalize9
    \/ CanonicalizeAbc
    \/ CanonicalizeAgain
    \/ CanonicalizeFetched7
    \/ CanonicalizeFetched9

SpecUrl == InitUrl /\ [][NextUrl]_vars

\* C7: canonicalizing a canonicalized URL changes nothing, for
\* canonicalize_link of 7NEWS and 9News (no page HTML) and canonical_abc_url.
C7_Idempotent == uStep = 2 => uOut2 = uOut1

\* the query parameters of a URL, as parse_qs reads them
Params(u) == Range(parse_qs(urlparse(u).query))

\* utm_*, WT.mc_id, WT.tsrc and sf
IsTracking(f) == f.pre = <<>> /\ f.p \in {"utm", "WT", "sf"}

AbcHasNoFragment == urlparse(uOut1).fragment = <<>>

AbcDropsTracking == \A f \in Params(uOut1) : ~IsTracking(f)

AbcKeepsOthers ==
    \A f \in Params(uIn) :
        ~IsTracking(f) => \E g \in Params(uOut1) : QsName(g) = QsName(f)

\* C16: for an abc.net.au URL the result of canonical_abc_url has no
\* fragment and none of the tracking parameters utm_*, WT.mc_id, WT.tsrc and
\* sf, and it has every other parameter of the URL.
C16_TrackingRemoved ==
    (uFn = "abc" /\ uStep >= 1 /\ "h" \in Range(urlparse(uIn).netloc)) =>
        /\ AbcHasNoFragment
        /\ AbcDropsTracking
        /\ AbcKeepsOthers

\* the host of a URL, in lower case
Host(u) == Lower(urlparse(WithScheme(u)).netloc)

\* C15: canonicalize_link takes the page's canonical href only when it is on
\* the host of the fetched URL: the result has the host of the fetched URL,
\* and with an href on another host it is what the call gives without the
\* page.
C15_CanonicalSameHost ==
    uStep = 3 =>
        /\ Host(uOut1) = Host(uIn)
        /\ Host(uHref) # Host(uIn) => uOut1 = Canon(uFn, uIn)

(***************************************************************************)
(* SpecExtract: one fetched page of 7NEWS goes through parse_json_ld,      *)
(* extract_meta_from_html and make_item.  The page is the list of its      *)
(* <script type="application/ld+json"> blocks, its og:title and its        *)
(* <title>.  A block is a JSON object, or text json.loads cannot read: ty  *)
(* is the @type (a string is a list of one, <<>> is no @type), graph the   *)
(* @graph.  Text is a sequence of words, " " being white space.            *)
(***************************************************************************)
MaxBlocks == 2

JObj(ty, headline, name, graph) ==
    [json |-> TRUE, ty |-> ty, headline |-> headline, name |-> name, graph |-> graph]

\* a block json.loads cannot read
BadBlock == [JObj(<<>>, <<>>, <<>>, <<>>) EXCEPT !.json = FALSE]

RECURSIVE LStrip(_, _)
LStrip(s, c) == IF s # <<>> /\ Head(s) = c THEN LStrip(Tail(s), c) ELSE s

RECURSIVE Collapse(_)
\* re.sub(r"\s+", " ", s)
Collapse(s) ==
    IF Len(s) < 2 THEN s
    ELSE IF s[1] = " " /\ s[2] = " " THEN Collapse(Tail(s))
    ELSE <<s[1]>> \o Collapse(Tail(s))

\* clean(s): white space collapsed and stripped
clean(s) == LStrip(RStrip(Collapse(s), " "), " ")

AcceptedTypes == {"NewsArticle", "Article", "BlogPosting"}

\* t = obj.get("@type"); of a list, its first string
TypeOf(obj) == IF obj.ty = <<>> THEN "" ELSE obj.ty[1]

NoCandidate == [found |-> FALSE, headline |-> <<>>]

\* select(obj): the candidate made of an object of an accepted type
select(obj) ==
    IF TypeOf(obj) \notin AcceptedTypes THEN NoCandidate
    ELSE [found |-> TRUE, headline |-> Or(obj.headline, obj.name)]

RECURSIVE SelectFirst(_)
\* for g in o["@graph"]: got = select(g); if got: return got
SelectFirst(g) ==
    IF g = <<>> THEN NoCandidate
    ELSE IF select(Head(g)).found THEN select(Head(g))
    ELSE SelectFirst(Tail(g))

\* scan(o) of a dict: the members of its @graph, then the dict itself
scan(o) == IF SelectFirst(o.graph).found THEN SelectFirst(o.graph) ELSE select(o)

RECURSIVE parse_json_ld(_)
\* the candidate of the first block that has one; {} when none has
parse_json_ld(blocks) ==
    IF blocks = <<>> THEN NoCandidate
    ELSE IF ~Head(blocks).json THEN parse_json_ld(Tail(blocks))
    ELSE IF scan(Head(blocks)).found THEN scan(Head(blocks))
    ELSE parse_json_ld(Tail(blocks))

\* the title of extract_meta_from_html: og:title, else <title>, cleaned
MetaTitle(og, titleTag) == clean(Or(og, titleTag))

\* the fallback order turned round: og:title before the JSON-LD headline
PageFromMetaFirst(ld, metaTitle) ==
    Page(ld.found, Or(metaTitle, clean(ld.headline)), None, metaTitle, None, <<>>,
         TRUE, TRUE)

\* the page as make_item sees it, ld being parse_json_ld's answer
PageFrom(ld, metaTitle) ==
    Page(ld.found, clean(ld.headline), None, metaTitle, None, <<>>, TRUE, TRUE)

PlainObjs ==
    {JObj(<<"NewsArticle">>, <<"A">>, <<>>, <<>>),
     JObj(<<"Article">>, <<>>, <<"N">>, <<>>),
     JObj(<<"NewsArticle">>, <<" ">>, <<>>, <<>>),
     JObj(<<"WebPage">>, <<"P">>, <<>>, <<>>),
     JObj(<<"WebPage", "NewsArticle">>, <<"L">>, <<>>, <<>>)}

Graphs == {<<o>> : o \in PlainObjs} \cup {<<o1, o2>> : o1, o2 \in PlainObjs}

Blocks ==
    {BadBlock} \cup PlainObjs
    \cup {JObj(<<>>, <<>>, <<>>, g) : g \in Graphs}
    \cup {JObj(<<"BlogPosting">>, <<"C">>, <<>>, <<o>>) : o \in PlainObjs}

InitExtract ==
    /\ xBlocks \in SeqsUpTo(Blocks, MaxBlocks)
    /\ xOg \in {<<>>, <<"B">>}
    /\ xTitleTag \in {<<>>, <<" ", "T">>}
    /\ xItem = Ok(Item(<<>>, <<>>, <<>>, None))
    /\ xStep = 0
    /\ UrlIdle
    /\ DateIdle
    /\ FeedIdle
    /\ AucdIdle
    /\ RunIdle
    /\ CrIdle
    /\ FixIdle
    /\ LastIdle

\* item = make_item(u, html_text)
ExtractItem ==
    /\ xStep = 0
    /\ xItem' = make_item("7news", UA, PageFrom(parse_json_ld(xBlocks),
                                                MetaTitle(xOg, xTitleTag)))
    /\ xStep' = 1
    /\ UNCHANGED <<urlVars, dateVars, feedVars, aucdVars, runVars, crVars, fixVars,
                   lastVars, xBlocks, xOg, xTitleTag>>

NextExtract == ExtractItem

SpecExtract == InitExtract /\ [][NextExtract]_vars

\* the objects of a block in the order of the walk: the members of @graph,
\* then the object that holds them
BlockObjects(b) == IF ~b.json THEN <<>> ELSE b.graph \o <<b>>

RECURSIVE Walk(_)
Walk(blocks) ==
    IF blocks = <<>> THEN <<>> ELSE BlockObjects(Head(blocks)) \o Walk(Tail(blocks))

\* the @type, or the first string of a list @type, is an accepted one
IsAccepted(obj) == obj.ty # <<>> /\ obj.ty[1] \in AcceptedTypes

AcceptedObjects == SelectSeq(Walk(xBlocks), IsAccepted)

\* the headline, else the name, of the first accepted object; <<>> if none
LdTitle ==
    IF AcceptedObjects = <<>> THEN <<>>
    ELSE clean(Or(AcceptedObjects[1].headline, AcceptedObjects[1].name))

\* C11: the title is the headline/name of the first JSON-LD object of an
\* accepted type when that text is not empty, whatever og:title is; only
\* otherwise is it og:title, else <title>, else the link.
C11_JsonLdTitleFirst ==
    xStep = 1 =>
        /\ xItem.st = "ok"
        /\ xItem.val.title =
              IF LdTitle # <<>> THEN LdTitle
              ELSE Or(MetaTitle(xOg, xTitleTag), xItem.val.link)

\* a page with a JSON-LD headline and a different og:title gave the headline
C11_Witness ==
    /\ xStep = 1
    /\ LdTitle = <<"A">>
    /\ xOg = <<"B">>
    /\ xItem.val.title = <<"A">>

(***************************************************************************)
(* SpecCr: a run of scrape_2cr.  fetch_all reads the candidate feeds one   *)
(* after the other; parse_one_feed reads a feed page by page, a page       *)
(* holding one entry or none; an entry has a link, a title and a published *)
(* text, each possibly absent, and the page behind the link may carry a    *)
(* date.  The clock crNow is what now_utc() returns.                       *)
(***************************************************************************)
\* MAX_ITEMS of scrape_2cr (200 in the source)
MAX_ITEMS_2CR == 2

\* MAX_PAGES of scrape_2cr (12 in the source)
MAX_PAGES_2CR == 3

\* len(FEED_CANDIDATES) (6 in the source)
NumFeeds == 2

\* to_trad with OpenCC("s2hk"): "simp" is text in simplified characters,
\* "trad" the same text in traditional characters
to_trad(s) == [i \in 1..Len(s) |-> IF s[i] = "simp" THEN "trad" ELSE s[i]]

\* strptime(raw, "%Y-%m-%dT%H:%M:%S%z") accepts the text: %z needs a zone
StrptimeOk(s) == s.k = "iso" /\ s.tz # "naive"

\* normalize_date of scrape_2cr: parsedate_to_datetime first, then strptime
normalize_date_2cr(raw) ==
    IF raw.k \in {"None", "empty"} THEN Ret(None)
    ELSE IF ParseDateOk(Strip(raw)) THEN Ret(UtcIsoformat(Instant(raw)))
    ELSE IF StrptimeOk(Strip(raw)) THEN Ret(UtcIsoformat(Instant(raw)))
    ELSE Ret(None)

\* to_iso of a UTC datetime: isoformat() with +00:00 written as Z
to_iso(instant) == DateV("iso", instant, 0, "Z", FALSE)

\* to_iso(as_sydney(d)): the same instant at Sydney's offset
to_iso_sydney(instant) == DateV("iso", instant + 10, 10, "num", FALSE)

CrEntry(link, title, published, pageDate) ==
    [link |-> link, title |-> title, published |-> published, pageDate |-> pageDate]

\* pub = normalize_date(published) if published else None;
\* if not pub and link: pub = fetch_date_from_page(link)
CrPub(e) ==
    IF normalize_date_2cr(e.published).val.k = "None" /\ e.link # <<>>
    THEN e.pageDate
    ELSE normalize_date_2cr(e.published).val

\* published_utc: the parsed pub, fetched_utc when there is none or it does
\* not parse
CrPublishedUtc(pub, now) ==
    IF pub.k # "None" /\ FromIsoOk(pub) THEN Instant(pub) ELSE now

CrItem(e, published_utc, now) ==
    [id               |-> MD5(Or(e.link, e.title)),
     title            |-> Or(to_trad(e.title), e.link),
     link             |-> e.link,
     publishedAt      |-> to_iso(published_utc),
     fetchedAt        |-> to_iso(now),
     publishedAtLocal |-> to_iso_sydney(published_utc)]

\* the body of "for entry in feed.entries" of parse_one_feed
cr_entry_item(e, now) == CrItem(e, CrPublishedUtc(CrPub(e), now), now)

CrTitles == {<<>>, <<"simp">>}

CrPublished == {None, DateV("rfc", 1, 0, "GMT", FALSE)}

CrPageDates == {None, UtcIsoformat(2)}

CrEntries ==
    {CrEntry(<<>>, t, p, None) : t \in CrTitles, p \in CrPublished}
    \cup {CrEntry(l, t, p, d) : l \in {L1, L2}, t \in CrTitles,
                                 p \in CrPublished, d \in CrPageDates}

RECURSIVE Keys(_)
Keys(items) == IF items = <<>> THEN {} ELSE {AucdKey(Head(items))} \cup Keys(Tail(items))

InitCr ==
    /\ crFeed = 1
    /\ crPage = 1
    /\ crItems = <<>>
    /\ crCollected = <<>>
    /\ crSeen = {}
    /\ crNow = MaxClock + 1
    /\ crLog = <<>>
    /\ crAsked = <<>>
    /\ crPc = "feed"
    /\ crDoc = NoDoc
    /\ UrlIdle
    /\ DateIdle
    /\ FeedIdle
    /\ AucdIdle
    /\ RunIdle
    /\ ExtractIdle
    /\ FixIdle
    /\ LastIdle

crOthers == <<urlVars, dateVars, feedVars, aucdVars, runVars, extractVars, fixVars,
              lastVars>>

\* "if len(items) >= MAX_ITEMS: break" at the end of a page, and the end of
\* range(1, MAX_PAGES + 1)
page_loop_ends(items, page) == Len(items) >= MAX_ITEMS_2CR \/ page = MAX_PAGES_2CR

\* the feed loop that reads every candidate
feed_loop_ends_at_last(collected, feed) == feed = NumFeeds

\* "if len(collected) >= MAX_ITEMS: break" after a feed, and the end of
\* FEED_CANDIDATES
feed_loop_ends(collected, feed) == Len(collected) >= MAX_ITEMS_2CR \/ feed = NumFeeds

\* parse_one_feed: one page of the feed with an entry; the page loop ends
\* at MAX_ITEMS items and after MAX_PAGES pages
CrReadPage ==
    /\ crPc = "feed"
    /\ crPage <= MAX_PAGES_2CR
    /\ \E e \in CrEntries :
          /\ crItems' = Append(crItems, cr_entry_item(e, crNow))
          /\ crLog' = Append(crLog, e)
    /\ crAsked' = Append(crAsked, [feed |-> crFeed, page |-> crPage, entries |-> 1])
    /\ crNow' = crNow + 1
    /\ IF page_loop_ends(crItems', crPage)
       THEN crPc' = "merge" /\ crPage' = crPage
       ELSE crPc' = "feed" /\ crPage' = crPage + 1
    /\ UNCHANGED <<crOthers, crFeed, crCollected, crSeen, crDoc>>

\* parse_one_feed: the page has no entries (return [] on page 1, break on a
\* later page)
CrNoEntries ==
    /\ crPc = "feed"
    /\ crPage <= MAX_PAGES_2CR
    /\ crPc' = "merge"
    /\ crAsked' = Append(crAsked, [feed |-> crFeed, page |-> crPage, entries |-> 0])
    /\ UNCHANGED <<crOthers, crFeed, crPage, crItems, crCollected, crSeen, crNow,
                   crLog, crDoc>>

\* fetch_all: the items of the feed go into collected unless their key was
\* seen; the feed loop ends at MAX_ITEMS collected items
CrCollect ==
    /\ crPc = "merge"
    /\ crCollected' = crCollected \o AucdDedupe(crItems, crSeen)
    /\ crSeen' = crSeen \cup Keys(crItems)
    /\ crItems' = <<>>
    /\ IF feed_loop_ends(crCollected', crFeed)
       THEN crPc' = "sort" /\ UNCHANGED <<crFeed, crPage>>
       ELSE crPc' = "feed" /\ crFeed' = crFeed + 1 /\ crPage' = 1
    /\ UNCHANGED <<crOthers, crNow, crLog, crAsked, crDoc>>

\* collected.sort(key=key_dt, reverse=True); json_out(collected[:MAX_ITEMS])
CrWrite ==
    /\ crPc = "sort"
    /\ crDoc' = json_out(Take(SortDesc(crCollected), MAX_ITEMS_2CR))
    /\ crPc' = "done"
    /\ UNCHANGED <<crOthers, crFeed, crPage, crItems, crCollected, crSeen, crNow, crLog,
                   crAsked>>

NextCr == CrReadPage \/ CrNoEntries \/ CrCollect \/ CrWrite

SpecCr == InitCr /\ [][NextCr]_vars

\* neither the feed entry nor the article page gives a date
CrUndated(e) ==
    /\ normalize_date_2cr(e.published).val.k = "None"
    /\ e.link = <<>> \/ e.pageDate.k = "None"

CrKey(e) == Or(e.link, MD5(Or(e.link, e.title)))

\* C12: an item whose publish date cannot be determined (no usable date in
\* the feed entry, none on the article page) is written with publishedAt
\* null: every written item all of whose feed entries are without a date has
\* publishedAt null, and no other instant such as the fetch time.
C12_UndatedIsNull ==
    crPc = "done" =>
        \A i \in 1..Len(crDoc.items) :
            (\A j \in 1..Len(crLog) :
                 CrKey(crLog[j]) = AucdKey(crDoc.items[i]) => CrUndated(crLog[j]))
                => crDoc.items[i].publishedAt = None

(***************************************************************************)
(* SpecFix: a run of fix_dates_sbs_zh_hant on the file sbs_zh_hant.json    *)
(* that scrape_sbs_zh_hant left (or did not leave) on disk.  The script    *)
(* reads the file, fetches the page of every item without publishedAt,     *)
(* and writes the file again.                                              *)
(***************************************************************************)
\* the number of items of the input document
MaxFixItems == 3

\* a file on disk: json says that its text is a JSON document
File(d) == [exists |-> TRUE, json |-> TRUE, doc |-> d]

\* a file whose text json.loads cannot read
Garbage == [exists |-> TRUE, json |-> FALSE, doc |-> NoDoc]

\* publishedAtLocal of scrape_sbs_zh_hant.make_item: to_iso(as_sydney(
\* pub_dt_utc)), None when pub is None or does not parse
PublishedAtLocal(pub) ==
    IF pub.k # "None" /\ FromIsoOk(pub) THEN to_iso_sydney(Instant(pub)) ELSE None

\* the item scrape_sbs_zh_hant.make_item returns for a page at url whose
\* title and normalized date are title and pub
zh_item(url, title, pub) ==
    [id               |-> MD5(url),
     title            |-> Or(title, url),
     link             |-> url,
     publishedAt      |-> pub,
     publishedAtLocal |-> PublishedAtLocal(pub)]

FixLinks == <<UA, UB, UC, UD, UE>>

\* the payload json_out of scrape_sbs_zh_hant writes
zh_payload(d) ==
    [source |-> "SBS", generatedAt |-> UtcIsoformat(0),
     generatedAtLocal |-> to_iso_sydney(0), localTimezone |-> "Australia/Sydney",
     count |-> d.count, items |-> d.items]

\* what normalize_date gave scrape_sbs_zh_hant for the pages
ZhPubs == {None} \cup {UtcIsoformat(t) : t \in Clock}

\* the documents scrape_sbs_zh_hant writes: the items sorted by key_dt,
\* newest first, the items without date last
FixInputs ==
    {zh_payload(json_out(SortDesc([i \in 1..Len(s) |-> zh_item(FixLinks[i], T1, s[i])]))) :
        s \in SeqsUpTo(ZhPubs, MaxFixItems)}

\* fetch_date_from_page of fix_dates_sbs_zh_hant: None, or what its
\* normalize_date returns
FixPageDates == {None} \cup {UtcIsoformat(t) : t \in Clock}

\* what the request of fetch_date_from_page meets: a failure, or a page and
\* the date its tags give
FixOutcomes ==
    {[ok |-> FALSE, date |-> None]} \cup {[ok |-> TRUE, date |-> d] : d \in FixPageDates}

\* fetch_date_from_page: None when the request fails
fetch_date_from_page(r) == IF r.ok THEN r.date ELSE None

FixState(at, exit, err, items) == [pc |-> at, exit |-> exit, err |-> err, items |-> items]

\* main without the test of INPUT_JSON.exists(): reading a missing file
\* raises
main_start_unchecked(file) ==
    IF file.exists /\ file.json
    THEN FixState("loop", -1, 0, file.doc.items)
    ELSE FixState("crashed", 1, 0, <<>>)

\* main up to the loop: the test of INPUT_JSON.exists() with sys.exit(1),
\* then json.loads of the file's text (an exception ends the run with a
\* traceback and status 1) and payload.get("items", [])
main_start(file) ==
    IF ~file.exists THEN FixState("exited", 1, 1, <<>>)
    ELSE IF ~file.json THEN FixState("crashed", 1, 0, <<>>)
    ELSE FixState("loop", -1, 0, file.doc.items)

\* the body of "for it in items": fetches says whether the page is fetched
FixFetches(it) == it.publishedAt.k = "None" /\ it.link # <<>>

\* the back-fill that sets publishedAtLocal with publishedAt
FixBackfillWithLocal(it, dt) ==
    IF FixFetches(it) /\ dt.k # "None"
    THEN [it EXCEPT !.publishedAt = dt, !.publishedAtLocal = PublishedAtLocal(dt)]
    ELSE it

\* it["publishedAt"] = dt
FixBackfill(it, dt) ==
    IF FixFetches(it) /\ dt.k # "None" THEN [it EXCEPT !.publishedAt = dt] ELSE it

InitFix ==
    /\ fxFile \in {NoFile, Garbage} \cup {File(d) : d \in FixInputs}
    /\ fxIn = fxFile
    /\ fxItems = <<>>
    /\ fxIdx = 0
    /\ fxFetched = <<>>
    /\ fxChanged = 0
    /\ fxErr = 0
    /\ fxExit = -1
    /\ fxPc = "start"
    /\ UrlIdle
    /\ DateIdle
    /\ FeedIdle
    /\ AucdIdle
    /\ RunIdle
    /\ ExtractIdle
    /\ CrIdle
    /\ LastIdle

fixOthers == <<urlVars, dateVars, feedVars, aucdVars, runVars, extractVars, crVars,
               lastVars>>

\* main, lines 103-109
FixStart ==
    /\ fxPc = "start"
    /\ fxPc' = main_start(fxFile).pc
    /\ fxExit' = main_start(fxFile).exit
    /\ fxErr' = main_start(fxFile).err
    /\ fxItems' = main_start(fxFile).items
    /\ fxIdx' = 1
    /\ UNCHANGED <<fixOthers, fxFile, fxIn, fxFetched, fxChanged>>

\* one pass of "for it in items"
FixItem ==
    /\ fxPc = "loop"
    /\ fxIdx <= Len(fxItems)
    /\ \E r \in (IF FixFetches(fxItems[fxIdx]) THEN FixOutcomes
                  ELSE {[ok |-> FALSE, date |-> None]}) :
          /\ fxItems' = [fxItems EXCEPT
                            ![fxIdx] = FixBackfill(fxItems[fxIdx], fetch_date_from_page(r))]
          /\ fxChanged' = IF FixFetches(fxItems[fxIdx]) /\ fetch_date_from_page(r).k # "None"
                          THEN fxChanged + 1 ELSE fxChanged
          /\ fxFetched' = IF FixFetches(fxItems[fxIdx])
                          THEN Append(fxFetched, [link |-> fxItems[fxIdx].link, r |-> r])
                          ELSE fxFetched
    /\ fxIdx' = fxIdx + 1
    /\ UNCHANGED <<fixOthers, fxFile, fxIn, fxErr, fxExit, fxPc>>

\* payload["generatedAt"] = iso_now(); payload["count"] = len(items); the
\* items are those of the payload, changed in place
payload_out(payload, items, now) ==
    [payload EXCEPT !.generatedAt = UtcIsoformat(now), !.count = Len(items),
                    !.items = items]

\* the last lines of main: the payload is written, main returns
FixWrite ==
    /\ fxPc = "loop"
    /\ fxIdx > Len(fxItems)
    /\ \E now \in Clock : fxFile' = File(payload_out(fxIn.doc, fxItems, now))
    /\ fxExit' = 0
    /\ fxPc' = "exited"
    /\ UNCHANGED <<fixOthers, fxIn, fxItems, fxIdx, fxFetched, fxChanged, fxErr>>

NextFix == FixStart \/ FixItem \/ FixWrite

SpecFix == InitFix /\ [][NextFix]_vars

\* the OutputDocument invariant: count is the number of items, dated items
\* stand newest first, items without date stand last
OutputDocumentOk(d) ==
    /\ d.count = Len(d.items)
    /\ \A i \in 1..(Len(d.items) - 1) :
           (HasDate(d.items[i]) /\ HasDate(d.items[i+1])) =>
               Instant(d.items[i].publishedAt) >= Instant(d.items[i+1].publishedAt)
    /\ \A i, j \in 1..Len(d.items) :
           (~HasDate(d.items[i]) /\ HasDate(d.items[j])) => j < i

\* the run went through main to its end and wrote the file
FixWritten == fxPc = "exited" /\ fxIn.exists

\* C18: when the input document satisfies the OutputDocument invariant, the
\* document fix_dates_sbs_zh_hant writes satisfies it too, back-filled dates
\* included.
C18_FixKeepsInvariant ==
    (FixWritten /\ OutputDocumentOk(fxIn.doc)) => OutputDocumentOk(fxFile.doc)

\* publishedAtLocal is there exactly when publishedAt is, and is the same
\* instant
LocalMatches(it) ==
    /\ (it.publishedAtLocal.k # "None") <=> (it.publishedAt.k # "None")
    /\ it.publishedAt.k # "None" =>
           Instant(it.publishedAtLocal) = Instant(it.publishedAt)

AllLocalMatch(d) == \A i \in 1..Len(d.items) : LocalMatches(d.items[i])

\* C19: in a written document publishedAtLocal is non-null exactly when
\* publishedAt is, and denotes the same instant; this holds for
\* sbs_zh_hant.json after fix_dates_sbs_zh_hant has back-filled dates.
C19_LocalFollowsPublished ==
    (FixWritten /\ AllLocalMatch(fxIn.doc)) => AllLocalMatch(fxFile.doc)

\* C20: when sbs_zh_hant.json does not exist at the start, the run prints a
\* diagnostic, exits with status 1, fetches no page and leaves the file
\* absent; every other run that gets to the end of main exits with status 0.
C20_MissingInputFatal ==
    /\ (~fxIn.exists /\ fxPc # "start") =>
           /\ fxPc = "exited"
           /\ fxExit = 1
           /\ fxErr = 1
    /\ ~fxIn.exists => (fxFetched = <<>> /\ fxFile = NoFile)
    /\ FixWritten => fxExit = 0

\* the input is missing and the run is over
C20_Witness == ~fxIn.exists /\ fxPc = "exited" /\ fxExit = 1

(***************************************************************************)
(* The fallbacks of SpecRun.                                               *)
(***************************************************************************)
\* the step asks Google News for URLs: collect_from_google_news() is called
GoogleNewsRequested == pc # "gn" /\ pc' = "gn"

\* every merged URL had its pass of the article loop, in the order of merged
AllMergedProcessed ==
    /\ Len(trace) = Len(merged)
    /\ \A i \in 1..Len(merged) : trace[i].u = merged[i]

\* C21: Google News is asked only after every sitemap, entry-page and crawl
\* URL had its pass, and only when fewer than MAX_ITEMS // 2 items are
\* collected by then; with MAX_ITEMS // 2 items or more no step of the run
\* asks Google News.
C21_GoogleNewsLast ==
    [][GoogleNewsRequested =>
          /\ AllMergedProcessed
          /\ Len(articles) < MAX_ITEMS \div 2
          /\ pc \in {"loop", "rss"}
          /\ pc = "rss" => script = "abc"]_vars

\* Google News is being read after an article loop that made one item
C21_Witness ==
    /\ pc = "gn"
    /\ Len(merged) > 1
    /\ Len(trace) = Len(merged)
    /\ Len(articles) = 1
    /\ urls_fb # <<>>

\* the run is past the merge
Merged == pc \in {"loop", "rss", "gn", "sort", "done"}

\* what the three sources found, by priority: sitemaps, entry pages, crawl
Found == urls_a \o urls_b \o urls_crawl

\* C22 as stated: the merged list is the concatenation of sitemap, entry-page
\* and crawl URLs with every exact URL string kept at its first occurrence
\* (a URL that does not look like an article may be left out).
C22_MergedExactDedupe ==
    Merged =>
        /\ \A i, j \in 1..Len(merged) : merged[i] = merged[j] => i = j
        /\ Range(merged) \subseteq Range(Found)
        /\ \A k \in 1..Len(Found) :
               looks_like_article_url(Found[k]) => Found[k] \in Range(merged)
        /\ \A i, j \in 1..Len(merged) :
               i < j => \E k \in 1..Len(Found) :
                           /\ Found[k] = merged[i]
                           /\ \A m \in 1..k : Found[m] # merged[j]

\* the key a script merges by: the canonical URL in scrape_abc_en, the URL
\* string in the others
MergeKey(sc, u) == IF sc = "abc" THEN canonical_abc_url(u) ELSE u

\* the URLs a script lets into merged: scrape_7news_en leaves out what does
\* not look like an article
MergeKeeps(sc, u) == sc = "7news" => looks_like_article_url(u)

\* the keys of the first n found URLs that the script lets in
KeysUpTo(n) == {MergeKey(script, Found[m]) : m \in {x \in 1..n : MergeKeeps(script, Found[x])}}

\* C22, amended: merged holds, once each and in the order of their first
\* occurrence in sitemap + entry-page + crawl URLs, the merge keys of the
\* URLs found (the URL string; in scrape_abc_en its canonical form; in
\* scrape_7news_en only of the URLs that look like articles); the article
\* loop takes merged in this order, and the fallbacks run only after every
\* merged URL had its pass.
C22_MergedFirstOccurrence ==
    Merged =>
        /\ \A i, j \in 1..Len(merged) : merged[i] = merged[j] => i = j
        /\ Range(merged) = KeysUpTo(Len(Found))
        /\ \A i, j \in 1..Len(merged) :
               i < j => \E k \in 1..Len(Found) :
                           /\ merged[i] \in KeysUpTo(k)
                           /\ merged[j] \notin KeysUpTo(k)
        /\ \A i \in 1..Len(trace) : trace[i].u = merged[i]
        /\ pc \in {"rss", "gn"} => Len(trace) = Len(merged)

\* every source found URLs, two of them were found twice, one is not an
\* article, and the article loop has taken all of merged
C22_Witness ==
    /\ pc \in {"rss", "gn"}
    /\ urls_a = <<UA, UB>>
    /\ urls_b = <<UAt, UC>>
    /\ urls_crawl = <<UB, UHome>>
    /\ Len(trace) = Len(merged)
    /\ Len(merged) < Len(Found)

(***************************************************************************)
(* SpecCrawl: one shallow crawl (crawl_site of scrape_7news_en and         *)
(* scrape_9news_en, crawl_news_section of scrape_abc_en and scrape_sbs_en, *)
(* crawl_chinese_section of scrape_sbs_zh_hant).  A page is known by its   *)
(* URL; the link graph gives for each page the hrefs of its <a> tags, in   *)
(* document order, and the article links links_from_html_anywhere finds in *)
(* it.  Every fetch succeeds or fails.                                     *)
(***************************************************************************)
\* max_pages (100, 8000, 80, 120 and 80 in the five calls)
MAX_PAGES_CRAWL == 2

\* the number of fetches one crawl of the model may attempt: more than the
\* pages of the link graphs below
HistoryCap == 6

\* SECTION_ALLOWED_PREFIXES: one prefix, the site's root with its slash
SECTION_ALLOWED_PREFIXES == <<"https:", "/", "/", "h", "/">>

\* the media extensions should_visit looks for: .pdf is in the lists of
\* scrape_7news_en, scrape_9news_en and scrape_abc_en only
MediaExts(sc) == IF sc \in {"7news", "9news", "abc"} THEN {".jpg", ".pdf"} ELSE {".jpg"}

should_visit(sc, url) ==
    /\ StartsWith(url, SECTION_ALLOWED_PREFIXES)
    /\ \A i \in 1..Len(url) : url[i] \notin MediaExts(sc)

\* urljoin(url, href) for an href that starts with "/": the scheme of url
\* for //host/path, scheme and host of url for /path
urljoin(url, href) ==
    IF StartsWith(href, <<"/", "/">>) THEN <<url[1]>> \o href
    ELSE <<url[1], "/", "/">> \o urlparse(url).netloc \o href

\* href = a["href"]; if href.startswith("/"): href = urljoin(url, href)
link_href(url, href) == IF StartsWith(href, <<"/">>) THEN urljoin(url, href) ELSE href

\* the queue and seen_pages
QState(queue, seen) == [q |-> queue, seen |-> seen]

\* the enqueue without the test against seen_pages
enqueue_href_unchecked(sc, st, href) ==
    IF href # <<>> /\ should_visit(sc, href)
    THEN QState(Append(st.q, href), st.seen \cup {href})
    ELSE st

\* if href and href not in seen_pages and should_visit(href):
\*     seen_pages.add(href); q.append(href)
enqueue_href(sc, st, href) ==
    IF href # <<>> /\ href \notin st.seen /\ should_visit(sc, href)
    THEN QState(Append(st.q, href), st.seen \cup {href})
    ELSE st

RECURSIVE enqueue_links(_, _, _, _)
\* for a in soup.find_all("a", href=True)
enqueue_links(sc, url, hrefs, st) ==
    IF hrefs = <<>> THEN st
    ELSE enqueue_links(sc, url, Tail(hrefs),
                       enqueue_href(sc, st, link_href(url, Head(hrefs))))

RECURSIVE enqueue_seeds(_, _, _)
\* for s in seeds: if should_visit(s): q.append(s); seen_pages.add(s)
enqueue_seeds(sc, seeds, st) ==
    IF seeds = <<>> THEN st
    ELSE enqueue_seeds(sc, Tail(seeds),
                       IF should_visit(sc, Head(seeds))
                       THEN QState(Append(st.q, Head(seeds)), st.seen \cup {Head(seeds)})
                       ELSE st)

\* the failed URL goes back to the end of the queue
crawl_retry(rest, url) == Append(rest, url)

\* except Exception: print a warning; continue -- the URL popped is gone
crawl_continue(rest, url) == rest

\* while q and pages_visited < max_pages
crawl_goes_on(queue, visited) == queue # <<>> /\ visited < MAX_PAGES_CRAWL

\* list(found_articles) of a set: the elements in some order
Perms(s) == {p \in [1..Len(s) -> Range(s)] : Range(p) = Range(s)}

PageA == Site("a")

PageB == Site("b")

PageC == Site("c")

\* a page that only scrape_sbs_en and scrape_sbs_zh_hant visit
PagePdf == Site("a") \o <<".pdf">>

\* the site's root without the slash: not under the allowed prefix
NoSlash == <<"https:", "/", "/", "h">>

PageOf(hrefs, arts) == [hrefs |-> hrefs, arts |-> arts]

\* what a page can hold: nothing; relative links, one of them twice; a link
\* back to the first page, an empty href, another host, an image; a link
\* on, a PDF, a scheme-relative link to another host
PageKinds ==
    {PageOf(<<>>, <<>>),
     PageOf(<< <<"/", "b">>, <<"/", "c">>, <<"/", "b">> >>, <<UA>>),
     PageOf(<<PageA, <<>>, <<"https:", "/", "/", "o", "/", "a">>,
              Site("a") \o <<".jpg">> >>, <<UA, UB>>),
     PageOf(<<PageC, PagePdf, <<"/", "/", "o", "/", "a">> >>, <<UB>>)}

LinkGraphs ==
    {[p \in {PageA, PageB, PageC, PagePdf} |->
         IF p = PagePdf THEN PageOf(<<>>, <<>>) ELSE g[p]] :
        g \in [{PageA, PageB, PageC} -> PageKinds]}

\* ENTRY_BASES: distinct URLs, the first of scrape_abc_en not under the
\* allowed prefix
SeedLists == {<<PageA>>, <<NoSlash, PageA, PageB>>}

\* what a fetch gives; "nonhtml" is a response fetch_html of scrape_9news_en
\* turns down
FetchOutcomes(sc) == {"ok", "fail"} \cup (IF sc = "9news" THEN {"nonhtml"} ELSE {})

InitCrawl ==
    /\ cwScript \in Scripts
    /\ cwSeeds \in SeedLists
    /\ cwHrefs \in LinkGraphs
    /\ cwQ = <<>>
    /\ seen_pages = {}
    /\ found_articles = <<>>
    /\ pages_visited = 0
    /\ cwFetched = <<>>
    /\ cwEnqueued = <<>>
    /\ cwRes = <<>>
    /\ cwPc = "start"
    /\ UrlIdle
    /\ DateIdle
    /\ FeedIdle
    /\ AucdIdle
    /\ RunIdle
    /\ ExtractIdle
    /\ CrIdle
    /\ FixIdle
    /\ SmIdle
    /\ ItemIdle

crawlOthers == <<urlVars, dateVars, feedVars, aucdVars, runVars, extractVars, crVars,
                 fixVars, smVars, itemVars>>

\* q = deque(); seen_pages = set(); the loop over the seeds
CrawlStart ==
    /\ cwPc = "start"
    /\ cwQ' = enqueue_seeds(cwScript, cwSeeds, QState(<<>>, {})).q
    /\ seen_pages' = enqueue_seeds(cwScript, cwSeeds, QState(<<>>, {})).seen
    /\ cwEnqueued' = cwQ'
    /\ cwPc' = "loop"
    /\ UNCHANGED <<crawlOthers, cwScript, cwSeeds, cwHrefs, found_articles,
                   pages_visited, cwFetched, cwRes>>

\* one pass of the while loop whose fetch raises: scrape_9news_en's
\* fetch_html returns None and never raises, so there the pass is CrawlVisit
CrawlFetchFail ==
    /\ cwPc = "loop"
    /\ crawl_goes_on(cwQ, pages_visited)
    /\ Len(cwFetched) < HistoryCap
    /\ cwScript # "9news"
    /\ cwQ' = crawl_continue(Tail(cwQ), Head(cwQ))
    /\ cwFetched' = Append(cwFetched, Head(cwQ))
    /\ UNCHANGED <<crawlOthers, cwScript, cwSeeds, cwHrefs, seen_pages, found_articles,
                   pages_visited, cwEnqueued, cwRes, cwPc>>

\* one pass of the while loop of scrape_9news_en with "if not html_text":
\* the fetch failed or the response is not HTML; the page counts as visited
CrawlNoHtml ==
    /\ cwPc = "loop"
    /\ crawl_goes_on(cwQ, pages_visited)
    /\ Len(cwFetched) < HistoryCap
    /\ cwScript = "9news"
    /\ \E o \in FetchOutcomes(cwScript) \ {"ok"} : TRUE
    /\ cwQ' = Tail(cwQ)
    /\ cwFetched' = Append(cwFetched, Head(cwQ))
    /\ pages_visited' = pages_visited + 1
    /\ UNCHANGED <<crawlOthers, cwScript, cwSeeds, cwHrefs, seen_pages, found_articles,
                   cwEnqueued, cwRes, cwPc>>

\* one pass of the while loop whose fetch succeeds: the article links go to
\* found_articles, the links to visit into the queue
CrawlVisit ==
    /\ cwPc = "loop"
    /\ crawl_goes_on(cwQ, pages_visited)
    /\ Len(cwFetched) < HistoryCap
    /\ cwQ' = enqueue_links(cwScript, Head(cwQ), cwHrefs[Head(cwQ)].hrefs,
                            QState(Tail(cwQ), seen_pages)).q
    /\ seen_pages' = enqueue_links(cwScript, Head(cwQ), cwHrefs[Head(cwQ)].hrefs,
                                   QState(Tail(cwQ), seen_pages)).seen
    /\ cwEnqueued' = cwEnqueued \o SubSeq(cwQ', Len(cwQ), Len(cwQ'))
    /\ found_articles' = found_articles
                             \o DedupeRaw(cwHrefs[Head(cwQ)].arts, Range(found_articles))
    /\ cwFetched' = Append(cwFetched, Head(cwQ))
    /\ pages_visited' = pages_visited + 1
    /\ UNCHANGED <<crawlOthers, cwScript, cwSeeds, cwHrefs, cwRes, cwPc>>

\* the while loop is over: return list(found_articles) (a set in four
\* scripts, the list itself in scrape_sbs_zh_hant)
CrawlReturn ==
    /\ cwPc = "loop"
    /\ ~crawl_goes_on(cwQ, pages_visited)
    /\ cwRes' \in (IF cwScript = "sbs_zh_hant" THEN {found_articles}
                   ELSE Perms(found_articles))
    /\ cwPc' = "done"
    /\ UNCHANGED <<crawlOthers, cwScript, cwSeeds, cwHrefs, cwQ, seen_pages,
                   found_articles, pages_visited, cwFetched, cwEnqueued>>

NextCrawl == CrawlStart \/ CrawlFetchFail \/ CrawlNoHtml \/ CrawlVisit \/ CrawlReturn

SpecCrawl == InitCrawl /\ [][NextCrawl]_vars

\* C23: during one shallow crawl at most max_pages page fetches are
\* attempted, the fetches that fail counted.
C23_FetchesBounded == Len(cwFetched) <= MAX_PAGES_CRAWL

\* no element occurs twice in the sequence
Distinct(s) == \A i, j \in 1..Len(s) : s[i] = s[j] => i = j

\* the seeds the crawl may visit, in the order of the seed list
VisitableSeeds ==
    LET Visitable(u) == should_visit(cwScript, u)
    IN  SelectSeq(cwSeeds, Visitable)

\* C27: at every step of a crawl each URL has been enqueued at most once (the
\* queue holds distinct URLs, all of them in seen_pages), every URL ever
\* enqueued satisfies should_visit, the pages are fetched in the order they
\* were discovered, the seeds first, and no page is fetched twice.
C27_QueueDiscipline ==
    cwPc \in {"loop", "done"} =>
        /\ Distinct(cwEnqueued)
        /\ Distinct(cwQ)
        /\ Range(cwQ) \subseteq seen_pages
        /\ Range(cwEnqueued) = seen_pages
        /\ \A i \in 1..Len(cwEnqueued) :
               /\ StartsWith(cwEnqueued[i], SECTION_ALLOWED_PREFIXES)
               /\ ".jpg" \notin Range(cwEnqueued[i])
               /\ should_visit(cwScript, cwEnqueued[i])
        /\ cwFetched \o cwQ = cwEnqueued
        /\ SubSeq(cwEnqueued, 1, Len(VisitableSeeds)) = VisitableSeeds
        /\ Distinct(cwFetched)

\* the first page links twice to the second, the second links back to the
\* first; both were fetched and the third page waits in the queue
C27_Witness ==
    /\ cwPc = "loop"
    /\ cwSeeds = <<PageA>>
    /\ cwHrefs[PageA].hrefs = << <<"/", "b">>, <<"/", "c">>, <<"/", "b">> >>
    /\ PageA \in Range(cwHrefs[PageB].hrefs)
    /\ cwFetched = <<PageA, PageB>>
    /\ cwQ = <<PageC>>

\* the crawl runs in one thread and nothing stops it: a pass of the loop
\* that can be taken is taken
SpecCrawlFair == InitCrawl /\ [][NextCrawl]_vars /\ WF_vars(NextCrawl)

\* C26: the shallow crawl terminates on every link graph and for every
\* pattern of fetch failures, also when every fetch fails and when pages
\* link to each other in cycles: every crawl reaches its return.
C26_CrawlTerminates == <>(cwPc = "done")

\* the crawl has returned after every fetch failed: two seeds were tried
\* and pages_visited is still 0
C26_Witness ==
    /\ cwPc = "done"
    /\ pages_visited = 0
    /\ Len(cwFetched) = 2
    /\ cwHrefs[PageB].hrefs # <<>>

\* ---------------------------------------------------------------------
\* collect_from_sitemaps: robots.txt, then every sitemap it lists
\* ---------------------------------------------------------------------

\* the factor of "len(out) >= 12 * MAX_ITEMS" (15 in scrape_abc_en)
SitemapFactor(sc) == IF sc = "abc" THEN 15 ELSE 12

SitemapCap(sc) == SitemapFactor(sc) * MAX_ITEMS

\* "/seg/" in u
HasSeg(u, seg) ==
    \E i \in 1..(Len(u) - 2) : u[i] = "/" /\ u[i + 1] = seg /\ u[i + 2] = "/"

\* re.search(r"/news/\d{4}-\d{2}-\d{2}/", u)
HasNewsDate(u) ==
    \E i \in 1..(Len(u) - 4) :
        /\ u[i] = "/" /\ u[i + 1] = "news" /\ u[i + 2] = "/"
        /\ u[i + 3] = "2024-01-01" /\ u[i + 4] = "/"

\* u.endswith(".xml")
EndsXml(u) == u # <<>> /\ u[Len(u)] = "sitemap.xml"

\* the test under which a sitemap entry is appended to out
sitemap_keeps(sc, u) ==
    CASE sc = "7news" ->
            /\ ~(EndsXml(u) \/ HasSeg(u, "sitemap"))
            /\ "h" \in Range(u)
            /\ looks_like_article_url(u)
      [] sc = "9news" -> "h" \in Range(u) /\ ~EndsXml(u)
      [] sc = "abc" ->
            /\ HasSeg(u, "news")
            /\ \/ HasNewsDate(u)
               \/ HasSeg(u, "news") /\ HasSeg(u, "article")
               \/ HasSeg(u, "news") /\ HasSeg(u, "stories")
      [] sc = "sbs_en" ->
            /\ HasSeg(u, "news")
            /\ \E seg \in {"article", "podcast-episode", "story"} : HasSeg(u, seg)
      [] OTHER ->
            /\ \E i \in 1..(Len(u) - 4) :
                  /\ u[i] = "/" /\ u[i + 1] = "language" /\ u[i + 2] = "/"
                  /\ u[i + 3] = "chinese" /\ u[i + 4] = "/"
            /\ HasSeg(u, "article") \/ HasSeg(u, "podcast-episode")

\* the entries of one sitemap that are appended to out, in order
sitemap_entries(sc, urls) == SelectSeq(urls, LAMBDA u : sitemap_keeps(sc, u))

\* "if not sm.lower().endswith('.xml'): continue"
sitemap_named_xml(sm) == sm.xml

\* "if len(out) >= 12 * MAX_ITEMS: break", tested after a whole sitemap
cap_reached(sc, out) == Len(out) >= SitemapCap(sc)

\* the closing loop over out keeps the first occurrence of every URL, in
\* order: the places of out whose URL no earlier place holds
first_places(out) ==
    SelectSeq([i \in 1..Len(out) |-> i], LAMBDA i : \A j \in 1..(i - 1) : out[j] # out[i])

uniq_at(out, places) == [k \in 1..Len(places) |-> out[places[k]]]

uniq(out) == uniq_at(out, first_places(out))

\* SITEMAP_RE.findall of the robots.txt text, [] when the fetch fails
sitemaps_from_robots(r) == IF r.ok THEN r.sitemaps ELSE <<>>

\* an article address of the site of script sc
SmArt(sc, w) ==
    <<"https:", "/", "/", "h", "/">>
        \o (IF sc = "sbs_zh_hant" THEN <<"language", "/", "chinese", "/">>
            ELSE <<"news", "/">>)
        \o <<"article", "/", w>>

SmDated == <<"https:", "/", "/", "h", "/", "news", "/", "2024-01-01", "/", "x">>

SmIndexUrl == <<"https:", "/", "/", "h", "/", "sitemap.xml">>

SmMany(sc, n) == [i \in 1..n |-> SmArt(sc, ToString(i))]

\* the sitemaps a robots.txt of the model can list: one whose name does not
\* end in .xml, one whose fetch fails, a short one with a repeated entry and
\* entries that are not articles, one with exactly as many articles as the
\* cap and one with one more
SitemapKinds(sc) ==
    { [xml |-> FALSE, ok |-> TRUE, urls |-> <<SmArt(sc, "1")>>],
      [xml |-> TRUE, ok |-> FALSE, urls |-> <<>>],
      [xml |-> TRUE, ok |-> TRUE,
       urls |-> <<SmArt(sc, "1"), SmIndexUrl, SmArt(sc, "1"), UHome, SmDated>>],
      [xml |-> TRUE, ok |-> TRUE, urls |-> SmMany(sc, SitemapCap(sc))],
      [xml |-> TRUE, ok |-> TRUE, urls |-> SmMany(sc, SitemapCap(sc) + 1)] }

RobotsResults(sc) ==
    {[ok |-> FALSE, sitemaps |-> <<>>]}
        \cup {[ok |-> TRUE, sitemaps |-> s] : s \in SeqsUpTo(SitemapKinds(sc), 2)}

InitSitemap ==
    /\ smScript \in Scripts
    /\ smRobots \in RobotsResults(smScript)
    /\ smIdx = 0
    /\ smOut = <<>>
    /\ smRes = <<>>
    /\ smPc = "start"
    /\ UrlIdle
    /\ DateIdle
    /\ FeedIdle
    /\ AucdIdle
    /\ RunIdle
    /\ ExtractIdle
    /\ CrIdle
    /\ FixIdle
    /\ CrawlIdle
    /\ ItemIdle

smOthers == <<urlVars, dateVars, feedVars, aucdVars, runVars, extractVars, crVars,
              fixVars, crawlVars, itemVars>>

\* "for sm in sitemaps_from_robots():"
SmStart ==
    /\ smPc = "start"
    /\ smRobots' = sitemaps_from_robots(smRobots)
    /\ smIdx' = 1
    /\ smPc' = "loop"
    /\ UNCHANGED <<smScript, smOut, smRes, smOthers>>

\* a listed sitemap whose name does not end in .xml: continue
SmSkip ==
    /\ smPc = "loop"
    /\ smIdx <= Len(smRobots)
    /\ ~sitemap_named_xml(smRobots[smIdx])
    /\ smIdx' = smIdx + 1
    /\ UNCHANGED <<smScript, smRobots, smOut, smRes, smPc, smOthers>>

\* the fetch of the sitemap raises: scrape_7news_en and scrape_9news_en go
\* on to the test of the cap, the other three continue
SmFail ==
    /\ smPc = "loop"
    /\ smIdx <= Len(smRobots)
    /\ sitemap_named_xml(smRobots[smIdx])
    /\ ~smRobots[smIdx].ok
    /\ IF smScript \in {"7news", "9news"} /\ cap_reached(smScript, smOut)
       THEN smPc' = "uniq" /\ smIdx' = smIdx
       ELSE smPc' = smPc /\ smIdx' = smIdx + 1
    /\ UNCHANGED <<smScript, smRobots, smOut, smRes, smOthers>>

\* one sitemap is read: every entry that passes the test is appended, and
\* only then is the cap tested
SmPass ==
    /\ smPc = "loop"
    /\ smIdx <= Len(smRobots)
    /\ sitemap_named_xml(smRobots[smIdx])
    /\ smRobots[smIdx].ok
    /\ smOut' = smOut \o sitemap_entries(smScript, smRobots[smIdx].urls)
    /\ IF cap_reached(smScript, smOut')
       THEN smPc' = "uniq" /\ smIdx' = smIdx
       ELSE smPc' = smPc /\ smIdx' = smIdx + 1
    /\ UNCHANGED <<smScript, smRobots, smRes, smOthers>>

\* the loop is over or was broken: remove the repeats and return
SmReturn ==
    /\ \/ smPc = "uniq"
       \/ smPc = "loop" /\ smIdx > Len(smRobots)
    /\ smRes' = uniq(smOut)
    /\ smPc' = "done"
    /\ UNCHANGED <<smScript, smRobots, smIdx, smOut, smOthers>>

NextSitemap ==
    \/ SmStart
    \/ SmSkip
    \/ SmFail
    \/ SmPass
    \/ SmReturn

SpecSitemap == InitSitemap /\ [][NextSitemap]_vars

\* C25: collect_from_sitemaps returns at most 12 x MAX_ITEMS URLs
\* (15 x MAX_ITEMS in scrape_abc_en), however many sitemaps robots.txt
\* lists and however many URLs each sitemap holds.
C25_SitemapCap == smPc = "done" => Len(smRes) <= SitemapCap(smScript)

\* ---------------------------------------------------------------------
\* make_item with every field: title, summary, publishedAt, sourceCategory
\* ---------------------------------------------------------------------

\* parts = [x for x in (p.path or "").strip("/").split("/") if x]
PathParts(u) == SelectSeq(urlparse(u).path, LAMBDA t : t # "/")

\* the keys of the table m of _slug_title that the model uses (of
\* scrape_sbs_zh_hant: "news" and "australian-chinese")
KnownSlugs(sc) ==
    CASE sc = "7news"  -> {"news", "world"}
      [] sc = "9news"  -> {"national", "world"}
      [] sc = "abc"    -> {"justin", "world", "news"}
      [] sc = "sbs_en" -> {"just-in", "world"}
      [] OTHER         -> {"news", "australian-chinese"}

\* m[slug]; the two titles of scrape_sbs_zh_hant are written in Latin letters
KnownTitle(sc, slug) ==
    CASE slug = "world"    -> "World"
      [] slug = "national" -> "National"
      [] slug \in {"justin", "just-in"} -> "Just In"
      [] slug = "news"     -> (IF sc = "sbs_zh_hant" THEN "XinWen" ELSE "News")
      [] OTHER             -> "AoZhouHuaRen"

\* str.capitalize() on the slugs of the model
Capitalize(slug) ==
    CASE slug = "world"    -> "World"
      [] slug = "news"     -> "News"
      [] slug = "foo"      -> "Foo"
      [] slug = "topic"    -> "Topic"
      [] slug = "language" -> "Language"
      [] OTHER             -> slug

\* _slug_title, _slug_title_en, _slug_title_zh: m.get(slug, slug.capitalize()),
\* in scrape_sbs_zh_hant m.get(slug, slug); the slugs of the model have no
\* hyphen, so the Title Case of scrape_sbs_en is capitalize
slug_title(sc, slug) ==
    IF slug \in KnownSlugs(sc) THEN KnownTitle(sc, slug)
    ELSE IF sc = "sbs_zh_hant" THEN slug
    ELSE Capitalize(slug)

\* the path segment category_from_url reads the category from, "" when the
\* path has none at the place the script looks at
section_slug(sc, parts) ==
    CASE sc \in {"7news", "9news"} -> IF parts # <<>> THEN parts[1] ELSE ""
      [] sc = "abc" ->
            IF Len(parts) >= 2 /\ parts[1] = "news"
            THEN (IF parts[2] = "2024-01-01" THEN "news" ELSE parts[2])
            ELSE IF Len(parts) = 1 /\ parts[1] = "news" THEN "news"
            ELSE ""
      [] sc = "sbs_en" ->
            IF Len(parts) >= 3 /\ parts[1] = "news" /\ parts[2] \in {"topic", "collection"}
            THEN parts[3]
            ELSE ""
      [] OTHER ->
            IF Len(parts) >= 5 /\ SubSeq(parts, 1, 3) = <<"language", "chinese", "zh-hant">>
                  /\ parts[4] \in {"topic", "collection"}
            THEN parts[5]
            ELSE IF Len(parts) >= 4
                      /\ SubSeq(parts, 1, 4)
                            = <<"language", "chinese", "zh-hant", "australian-chinese">>
            THEN "australian-chinese"
            ELSE ""

\* the category of a slug, <<>> standing for None and for ""
CategoryOf(sc, slug) ==
    IF slug = "" \/ slug_title(sc, slug) = "" THEN <<>> ELSE <<slug_title(sc, slug)>>

\* category_from_url; scrape_abc_en parses canonical_abc_url(u)
category_from_url(sc, u) ==
    CategoryOf(sc, section_slug(sc, PathParts(IF sc = "abc" THEN canonical_abc_url(u)
                                              ELSE u)))

\* the page as make_item sees it: parse_json_ld's answer (ld is "if ld:")
\* and the four values of extract_meta_from_html
FullPage(ld, h, d, dt, s, mt, md, mdt, ms) ==
    [ld |-> ld, headline |-> h, ldDesc |-> d, ldDate |-> dt, ldSection |-> s,
     metaTitle |-> mt, metaDesc |-> md, metaDate |-> mdt, metaSection |-> ms,
     href |-> <<>>, html |-> TRUE, zh |-> TRUE]

\* desc of make_item
ExtractDesc(page) ==
    IF page.ld
    THEN (IF page.headline # <<>> THEN page.ldDesc ELSE Or(page.ldDesc, page.metaDesc))
    ELSE page.metaDesc

\* the order turned round: the hint of the entry page before the URL
SectionHintFirst(sc, url, hint) ==
    Or(hint, category_from_url(sc, IF sc = "abc" THEN canonical_abc_url(url) ELSE url))

\* section = category_from_url(url) or hint_section; scrape_abc_en passes
\* canonical_abc_url(url)
SectionFirst(sc, url, hint) ==
    Or(category_from_url(sc, IF sc = "abc" THEN canonical_abc_url(url) ELSE url), hint)

\* the later "section = section or ..." lines of make_item
SectionFrom(page, section) ==
    IF page.ld
    THEN (IF page.headline # <<>> THEN Or(section, page.ldSection)
          ELSE Or(Or(section, page.ldSection), page.metaSection))
    ELSE Or(section, page.metaSection)

ExtractSection(sc, url, hint, page) == SectionFrom(page, SectionFirst(sc, url, hint))

\* the item with its summary and sourceCategory
WithFields(r, desc, section) ==
    IF r.st = "raise" THEN r
    ELSE Ok([id |-> r.val.id, title |-> r.val.title, link |-> r.val.link,
             publishedAt |-> r.val.publishedAt, summary |-> desc,
             sourceCategory |-> section])

make_item_fields(sc, url, hint, page) ==
    WithFields(make_item(sc, url, page), ExtractDesc(page),
               ExtractSection(sc, url, hint, page))

UX(path) == <<"https:", "/", "/", "h">> \o path

ItemUrls ==
    {UHome,
     UX(<<"/", "world", "/", "x">>),
     UX(<<"/", "foo", "/", "x">>),
     UX(<<"/", "news">>),
     UX(<<"/", "news", "/", "world", "/", "x">>),
     UX(<<"/", "news", "/", "foo", "/", "x">>),
     UX(<<"/", "news", "/", "2024-01-01", "/", "x">>),
     UX(<<"/", "news", "/", "topic", "/", "world", "/", "x">>),
     UX(<<"/", "news", "/", "topic", "/", "foo", "/", "x">>),
     UX(<<"/", "language", "/", "chinese", "/", "zh-hant", "/", "topic", "/", "news",
          "/", "x">>),
     UX(<<"/", "language", "/", "chinese", "/", "zh-hant", "/", "topic", "/", "foo",
          "/", "x">>),
     UX(<<"/", "language", "/", "chinese", "/", "zh-hant", "/", "australian-chinese">>)}

LdDate == DateV("iso", 1, 0, "Z", FALSE)

MetaDate == DateV("iso", 2, 0, "Z", FALSE)

ItemPages ==
    {FullPage(ld, h, d, dt, s, mt, md, mdt, ms) :
        ld \in {TRUE}, h \in {<<>>, T1}, d \in {<<>>, <<"LdDesc">>},
        dt \in {None, LdDate, DateV("text", 0, 0, "-", FALSE), NonStr},
        s \in {<<>>, <<"LdSection">>},
        mt \in {<<>>, <<"MetaTitle">>}, md \in {<<>>, <<"MetaDesc">>},
        mdt \in {None, MetaDate}, ms \in {<<>>, <<"MetaSection">>}}
    \cup {FullPage(FALSE, <<>>, <<>>, None, <<>>, mt, md, mdt, ms) :
        mt \in {<<>>, <<"MetaTitle">>}, md \in {<<>>, <<"MetaDesc">>},
        mdt \in {None, MetaDate}, ms \in {<<>>, <<"MetaSection">>}}

InitItem ==
    /\ miScript \in Scripts
    /\ miUrl \in ItemUrls
    /\ miHint \in {<<>>, <<"Hint">>}
    /\ miPage \in ItemPages
    /\ miItem = <<>>
    /\ miPc = "start"
    /\ UrlIdle
    /\ DateIdle
    /\ FeedIdle
    /\ AucdIdle
    /\ RunIdle
    /\ ExtractIdle
    /\ CrIdle
    /\ FixIdle
    /\ CrawlIdle
    /\ SmIdle

\* item = make_item(u, html_text, hint_section=hint)
MakeItem ==
    /\ miPc = "start"
    /\ miItem' = make_item_fields(miScript, miUrl, miHint, miPage)
    /\ miPc' = "done"
    /\ UNCHANGED <<urlVars, dateVars, feedVars, aucdVars, runVars, extractVars, crVars,
                   fixVars, crawlVars, smVars, miScript, miUrl, miHint, miPage>>

NextItem == MakeItem

SpecItem == InitItem /\ [][NextItem]_vars

ItemMade == miPc = "done" /\ miItem.st = "ok"

\* the slug at the place of the path where the script looks for a section
UrlSlug == section_slug(miScript, PathParts(miUrl))

\* the first of the values that is not empty
FirstOf(s) == IF \E i \in 1..Len(s) : s[i] # <<>>
              THEN s[CHOOSE i \in 1..Len(s) : s[i] # <<>> /\ \A j \in 1..(i - 1) : s[j] = <<>>]
              ELSE <<>>

LdTitled == miPage.ld /\ miPage.headline # <<>>

\* what normalize_date makes of the dates of the model: the ISO text ending
\* in Z stays, the text that is no date and the missing date give None
Normal(d) == IF d.k = "iso" THEN d ELSE None

\* C30: when the page has a JSON-LD object of an accepted @type with a
\* non-empty title, summary and publishedAt come from that object only: a
\* JSON-LD object without a date gives publishedAt null even when the page
\* has an article:published_time meta tag.  The values of the meta and HTML
\* tags are used only when there is no such object or its title is empty,
\* and then they fill only what JSON-LD left empty.
C30_JsonLdFirst ==
    ItemMade =>
        /\ LdTitled =>
              /\ miItem.val.summary = miPage.ldDesc
              /\ miItem.val.publishedAt = Normal(miPage.ldDate)
        /\ miPage.ld /\ ~LdTitled =>
              /\ miItem.val.summary
                    = (IF miPage.ldDesc # <<>> THEN miPage.ldDesc ELSE miPage.metaDesc)
              /\ miItem.val.publishedAt
                    = (IF Normal(miPage.ldDate) # None THEN Normal(miPage.ldDate)
                       ELSE Normal(miPage.metaDate))
              /\ miItem.val.title \in {miPage.metaTitle, miItem.val.link}
        /\ ~miPage.ld =>
              /\ miItem.val.summary = miPage.metaDesc
              /\ miItem.val.publishedAt = Normal(miPage.metaDate)

\* an item of a page whose titled JSON-LD object has neither date nor
\* description while the meta tags have both: publishedAt is null and the
\* summary is empty
C30_Witness ==
    /\ ItemMade
    /\ LdTitled
    /\ miPage.ldDate = None
    /\ miPage.ldDesc = <<>>
    /\ miPage.metaDate = MetaDate
    /\ miPage.metaDesc # <<>>
    /\ miItem.val.publishedAt = None
    /\ miItem.val.summary = <<>>

\* the run of fix_dates_sbs_zh_hant read its input and is in or past the loop
FixRead == fxPc \in {"loop", "exited"} /\ fxIn.exists /\ fxIn.json

\* the item differs from the item it was in no field but publishedAt
SameButPublishedAt(now, was) == [now EXCEPT !.publishedAt = was.publishedAt] = was

\* the places of the fetch log that are about the item with this link
FetchesOf(link) == {k \in 1..Len(fxFetched) : fxFetched[k].link = link}

\* the items of the input that have no publishedAt but a link, among the
\* first n
FixFetchable(n) ==
    {i \in 1..n : fxIn.doc.items[i].publishedAt = None /\ fxIn.doc.items[i].link # <<>>}

\* C28: fix_dates_sbs_zh_hant changes only publishedAt, only of items that
\* had none and have a link, and only to a date found on the page; items
\* with a date, all other fields, the number and the order of the items
\* stay.  A failed fetch leaves the item without publishedAt and the later
\* items are still processed; of the top-level keys only generatedAt and
\* count are rewritten.
C28_FixFrame ==
    FixRead =>
        /\ Len(fxItems) = Len(fxIn.doc.items)
        /\ \A i \in 1..Len(fxItems) :
              /\ SameButPublishedAt(fxItems[i], fxIn.doc.items[i])
              /\ fxItems[i].publishedAt # fxIn.doc.items[i].publishedAt =>
                    /\ i \in FixFetchable(Len(fxItems))
                    /\ i < fxIdx
                    /\ \E k \in FetchesOf(fxItems[i].link) :
                          /\ fxFetched[k].r.ok
                          /\ fxFetched[k].r.date # None
                          /\ fxFetched[k].r.date = fxItems[i].publishedAt
              /\ (\E k \in FetchesOf(fxItems[i].link) :
                      ~fxFetched[k].r.ok \/ fxFetched[k].r.date = None)
                    => fxItems[i].publishedAt = None
        /\ Len(fxFetched) = Cardinality(FixFetchable(fxIdx - 1))
        /\ fxPc = "exited" =>
              /\ fxIdx = Len(fxItems) + 1
              /\ fxFile.doc.items = fxItems
              /\ fxFile.doc.count = Len(fxItems)
              /\ [fxFile.doc EXCEPT !.generatedAt = fxIn.doc.generatedAt,
                                    !.count = fxIn.doc.count,
                                    !.items = fxIn.doc.items] = fxIn.doc

\* the file is written after a run whose first fetch failed and whose
\* second fetch found a date: the first of the two items is still without
\* publishedAt, the second has the date found, a dated item stands before
\* them
C28_Witness ==
    /\ FixWritten
    /\ Len(fxItems) = 3
    /\ Len(fxFetched) = 2
    /\ ~fxFetched[1].r.ok
    /\ fxFetched[2].r.ok /\ fxFetched[2].r.date # None
    /\ fxFile.doc.items[1] = fxIn.doc.items[1]
    /\ fxFile.doc.items[2].publishedAt = None
    /\ fxFile.doc.items[3].publishedAt = fxFetched[2].r.date
    /\ fxFile.doc.generatedAt # fxIn.doc.generatedAt

\* the number of items parse_one_feed holds after request k of the log: the
\* entries of the pages of that feed read so far
HeldAfter(k) ==
    Cardinality({j \in 1..k : crAsked[j].feed = crAsked[k].feed /\ crAsked[j].entries > 0})

\* the page loop of a feed is over after request k
FeedOverAfter(k) ==
    \/ crAsked[k].entries = 0
    \/ HeldAfter(k) >= MAX_ITEMS_2CR
    \/ crAsked[k].page = MAX_PAGES_2CR

\* the items of collected have distinct keys
CollectedDistinct ==
    \A i, j \in 1..Len(crCollected) :
        AucdKey(crCollected[i]) = AucdKey(crCollected[j]) => i = j

\* C29: fetch_all takes the feeds in their configured order and reads no
\* further feed once MAX_ITEMS distinct items are collected; the output is
\* the newest-first ordering (cut to MAX_ITEMS) of what was collected by
\* then.  Within a feed parse_one_feed asks for the pages 1..MAX_PAGES in
\* increasing order, gives nothing when page 1 is empty, and stops at the
\* first empty page or once it holds MAX_ITEMS items.
C29_FeedOrder ==
    /\ crPc \in {"feed", "merge", "sort", "done"} =>
          /\ CollectedDistinct
          /\ crAsked # <<>> => (crAsked[1].feed = 1 /\ crAsked[1].page = 1)
          /\ \A k \in 1..Len(crAsked) :
                /\ crAsked[k].feed \in 1..NumFeeds
                /\ crAsked[k].page \in 1..MAX_PAGES_2CR
          /\ \A k \in 1..(Len(crAsked) - 1) :
                IF FeedOverAfter(k)
                THEN crAsked[k + 1].feed = crAsked[k].feed + 1 /\ crAsked[k + 1].page = 1
                ELSE crAsked[k + 1].feed = crAsked[k].feed
                        /\ crAsked[k + 1].page = crAsked[k].page + 1
    \* a page can be asked for only while fewer than MAX_ITEMS are collected
    /\ crPc = "feed" => Len(crCollected) < MAX_ITEMS_2CR
    \* a feed whose page 1 is empty gives nothing
    /\ (crPc = "merge" /\ crAsked[Len(crAsked)].page = 1
           /\ crAsked[Len(crAsked)].entries = 0) => crItems = <<>>
    /\ crPc = "merge" => (FeedOverAfter(Len(crAsked)) /\ Len(crItems) = HeldAfter(Len(crAsked)))
    /\ crPc \in {"sort", "done"} =>
          \/ Len(crCollected) >= MAX_ITEMS_2CR
          \/ crAsked[Len(crAsked)].feed = NumFeeds
    /\ crPc = "done" => crDoc.items = Take(SortDesc(crCollected), MAX_ITEMS_2CR)

\* the run is over after the first feed alone: its pages 1 and 2 gave the
\* MAX_ITEMS items, and the second feed was never asked
C29_Witness ==
    /\ crPc = "done"
    /\ Len(crAsked) = MAX_ITEMS_2CR
    /\ \A k \in 1..Len(crAsked) : crAsked[k].feed = 1 /\ crAsked[k].page = k
    /\ Len(crDoc.items) = MAX_ITEMS_2CR
    /\ NumFeeds > 1

====
